---------------------------- MODULE Spec2Model ----------------------------
(***************************************************************************)
(* A model of "Escape the Secret Island" (faq2806/escape_from_island):     *)
(* the Game orchestrator (game.py), the entities (entities.py) and the     *)
(* level data (levels.py).                                                 *)
(*                                                                         *)
(* Units.  Time is counted in hundredths of a second (0.7 s = 70), stamina *)
(* in hundredths of a point, so that every product drain * dt of the code  *)
(* is an integer.  Rectangles are pygame.Rect values with integer fields.  *)
(*                                                                         *)
(* Geometry.  Rectangles of gates, items, the extraction point, obstacles  *)
(* and characters are the ones of the source and every overlap test is the *)
(* rectangle arithmetic of pygame.  What is abstracted is motion: the      *)
(* result of Player.handle_input + move_and_collide over some frames is an *)
(* input of Update (the player ends the movement on one of the spots of    *)
(* the zone), what a guard sees and where a bullet flies are inputs too.   *)
(* The guards' own motion is not tracked: their places are the ones of     *)
(* build_guards.                                                           *)
(***************************************************************************)
EXTENDS Integers, Sequences, FiniteSets, TLC

\* ------------------------------------------------------------ settings
\* settings.py is not among the sources; the values are the ones the
\* rectangles of game.py and levels.py are written for (1200 x 720).
WIDTH == 1200
HEIGHT == 720
MAX_STAMINA == 100

\* ------------------------------------------------------------ bounds
\* The frame times (dt) a frame may take, in hundredths of a second.
DtShort == 50
DtLong == 100
\* Guard.shoot_timer is decremented without a floor; the model keeps it
\* exact down to -ShootTimerFloor and saturates there.
ShootTimerFloor == 1
\* The bullet list is unbounded in the code; frames and shots that would
\* make it longer than this are not taken.
MaxBullets == 2
DtHuge == 1000
RateHuge == 500
\* How far, in pixels, the character of SpecMove gets from its first place.
MoveReach == 30
\* The step, in pixels, of the grid of intended positions of SpecSpawn.
SpawnStep == 20
\* How far from the player, in pixels along each axis, the NPC of SpecFollow
\* is placed, and the step of the places.
FollowReach == 60
FollowStep == 5

\* ------------------------------------------------------------ pygame
Rect(x, y, w, h) == [x |-> x, y |-> y, w |-> w, h |-> h]

\* pygame.Rect.colliderect: a strict overlap of the two rectangles.
colliderect(a, b) ==
    /\ a.x < b.x + b.w
    /\ b.x < a.x + a.w
    /\ a.y < b.y + b.h
    /\ b.y < a.y + a.h

\* pygame.Rect.inflate(dw, dh): grown around the centre.
inflate(r, dw, dh) == Rect(r.x - dw \div 2, r.y - dh \div 2, r.w + dw, r.h + dh)

\* pygame.Rect.centerx / centery.
centerx(r) == r.x + r.w \div 2
centery(r) == r.y + r.h \div 2

Min(a, b) == IF a < b THEN a ELSE b
Max(a, b) == IF a > b THEN a ELSE b

\* ------------------------------------------------------------ levels.py
Zones == {"Ground", "Estate", "Tunnels", "Harbor"}
region_order == <<"Ground", "Estate", "Tunnels", "Harbor">>

\* list.index of region_order.
RegionIndex(z) == CHOOSE i \in 1..Len(region_order) : region_order[i] = z

DIFFICULTIES ==
    << [name |-> "Story", player_health |-> 120, stamina_drain |-> 24,
        stamina_recover |-> 20, guard_sight |-> 260, guard_shoot_cooldown |-> 120,
        guard_health |-> 38, guard_damage |-> 12, player_damage |-> 24,
        extra_guards |-> 0],
       [name |-> "Survivor", player_health |-> 95, stamina_drain |-> 30,
        stamina_recover |-> 15, guard_sight |-> 340, guard_shoot_cooldown |-> 85,
        guard_health |-> 55, guard_damage |-> 18, player_damage |-> 20,
        extra_guards |-> 1],
       [name |-> "Nightmare", player_health |-> 75, stamina_drain |-> 38,
        stamina_recover |-> 11, guard_sight |-> 420, guard_shoot_cooldown |-> 62,
        guard_health |-> 70, guard_damage |-> 24, player_damage |-> 18,
        extra_guards |-> 2] >>

ZoneGate(rect, target_zone, sx, sy, required_key) ==
    [rect |-> rect, target_zone |-> target_zone,
     spawn |-> [x |-> sx, y |-> sy], required_key |-> required_key]

border ==
    << Rect(0, 0, WIDTH, 40), Rect(0, HEIGHT - 40, WIDTH, 40),
       Rect(0, 0, 40, HEIGHT), Rect(WIDTH - 40, 0, 40, HEIGHT) >>

\* build_zone_data(zone): obstacles, gates, extraction (a set: empty for None).
build_zone_data(zone) ==
    CASE zone = "Ground" ->
           [obstacles |-> border \o
               << Rect(270, 90, 620, 24), Rect(270, 90, 24, 220),
                  Rect(866, 90, 24, 200), Rect(180, 320, 560, 24),
                  Rect(716, 320, 24, 210), Rect(330, 530, 410, 24) >>,
            gates |-> << ZoneGate(Rect(52, 84, 54, 92), "Estate", 1060, 620, "jail_key") >>,
            extraction |-> {}]
      [] zone = "Estate" ->
           [obstacles |-> border \o
               << Rect(130, 180, 840, 24), Rect(130, 180, 24, 360),
                  Rect(946, 180, 24, 360), Rect(350, 340, 430, 24),
                  Rect(350, 340, 24, 180), Rect(756, 340, 24, 180),
                  Rect(550, 530, 230, 24) >>,
            gates |-> << ZoneGate(Rect(1082, 620, 56, 56), "Ground", 100, 140, "none"),
                         ZoneGate(Rect(80, 620, 60, 60), "Tunnels", 1040, 600, "cave_key") >>,
            extraction |-> {}]
      [] zone = "Tunnels" ->
           [obstacles |-> border \o
               << Rect(120, 120, 200, 20), Rect(400, 120, 500, 20),
                  Rect(120, 120, 20, 300), Rect(880, 120, 20, 300),
                  Rect(120, 400, 300, 20), Rect(500, 400, 400, 20),
                  Rect(400, 200, 20, 220), Rect(600, 200, 20, 220),
                  Rect(120, 520, 300, 20), Rect(580, 520, 300, 20),
                  Rect(120, 400, 20, 140), Rect(860, 400, 20, 140),
                  Rect(250, 220, 100, 20), Rect(650, 220, 100, 20) >>,
            gates |-> << ZoneGate(Rect(1082, 620, 56, 56), "Estate", 120, 620, "none"),
                         ZoneGate(Rect(70, 80, 80, 80), "Harbor", 500, 400, "boat_key") >>,
            extraction |-> {}]
      [] OTHER ->
           [obstacles |-> border \o
               << Rect(200, 400, 150, 80), Rect(500, 450, 120, 60),
                  Rect(900, 400, 150, 70), Rect(300, 550, 40, 40),
                  Rect(600, 350, 40, 40), Rect(400, 500, 30, 30),
                  Rect(700, 500, 30, 30), Rect(820, 180, 15, 60),
                  Rect(920, 180, 15, 60), Rect(1020, 180, 15, 60) >>,
            gates |-> << ZoneGate(Rect(1080, 620, 60, 60), "Tunnels", 160, 140, "none") >>,
            extraction |-> {Rect(1020, 210, 80, 40)}]

\* The level data of the four zones, computed once.
ZoneData == [z \in Zones |-> build_zone_data(z)]

\* build_guards: the guards of a zone are the base positions followed by the
\* first profile.extra_guards extra positions, each passed through
\* find_valid_spawn (two intended positions are blocked and are moved by the
\* spiral search: Ground (540, 500) to (516, 554), Estate (140, 500) to
\* (160, 500)).
base_guard_spawns ==
    [z \in Zones |->
        CASE z = "Ground" -> << [x |-> 516, y |-> 554], [x |-> 950, y |-> 250] >>
          [] z = "Estate" -> << [x |-> 350, y |-> 300], [x |-> 850, y |-> 520] >>
          [] z = "Tunnels" -> << [x |-> 700, y |-> 300] >>
          [] OTHER -> << [x |-> 800, y |-> 420] >>]

extra_guard_spawns ==
    [z \in Zones |->
        CASE z = "Ground" -> << [x |-> 760, y |-> 180], [x |-> 420, y |-> 210] >>
          [] z = "Estate" -> << [x |-> 1010, y |-> 230], [x |-> 160, y |-> 500] >>
          [] z = "Tunnels" -> << [x |-> 350, y |-> 460], [x |-> 980, y |-> 140] >>
          [] OTHER -> << [x |-> 620, y |-> 280], [x |-> 1000, y |-> 520] >>]

\* Guard.__init__: the clamped position, full health, not alerted; the shoot
\* timer is random.uniform(0.2, 0.8), here the value t0 of that range.
Guard(zone, k, pos, profile, t0) ==
    [id |-> <<zone, k>>,
     x |-> Max(50, Min(WIDTH - 70, pos.x)),
     y |-> Max(50, Min(HEIGHT - 70, pos.y)),
     health |-> profile.guard_health,
     shoot_timer |-> t0,
     muzzle_timer |-> 0,
     alerted |-> FALSE]

build_guards(profile, t0) ==
    [z \in Zones |->
        LET spawns == base_guard_spawns[z] \o
                      SubSeq(extra_guard_spawns[z], 1, profile.extra_guards)
        IN  [k \in 1..Len(spawns) |-> Guard(z, k, spawns[k], profile, t0)]]

\* ------------------------------------------------------------ items
\* The identifiers of Game.collected: "gun", "ammo_<zone>_<idx>", "clue_<zone>".
GunId == <<"gun", "", 0>>
AmmoId(zone, idx) == <<"ammo", zone, idx>>
ClueId(zone) == <<"clue", zone, 0>>

ZoneKey(zone) ==
    CASE zone = "Ground" -> "jail_key"
      [] zone = "Estate" -> "cave_key"
      [] zone = "Tunnels" -> "boat_key"
      [] OTHER -> "none"

\* build_items(): the item rectangles Game.__init__ starts with.  A zone's
\* record holds the gun and clue as sets (empty: the zone has none), the ammo
\* boxes as a sequence and the zone's key as a set.
build_items ==
    [z \in Zones |->
        CASE z = "Ground" ->
               [gun |-> {Rect(200, 550, 24, 12)},
                ammo |-> << Rect(300, 200, 16, 10), Rect(800, 500, 16, 10) >>,
                clue |-> {Rect(400, 300, 20, 14)},
                key |-> {Rect(500, 400, 18, 12)}]
          [] z = "Estate" ->
               [gun |-> {},
                ammo |-> << Rect(300, 350, 16, 10) >>,
                clue |-> {Rect(250, 250, 20, 14)},
                key |-> {Rect(700, 400, 18, 12)}]
          [] z = "Tunnels" ->
               [gun |-> {},
                ammo |-> << Rect(600, 350, 16, 10), Rect(300, 500, 16, 10) >>,
                clue |-> {Rect(500, 200, 20, 14)},
                key |-> {Rect(800, 200, 18, 12)}]
          [] OTHER -> [gun |-> {}, ammo |-> << >>, clue |-> {}, key |-> {}]]

\* randomize_spawns: the candidate positions of each zone.
safe_zones_raw ==
    [z \in Zones |->
        CASE z = "Ground" ->
               << <<150, 550>>, <<300, 200>>, <<800, 500>>, <<1000, 300>>,
                  <<500, 400>>, <<250, 600>>, <<700, 200>>, <<900, 550>>,
                  <<400, 300>>, <<600, 500>> >>
          [] z = "Estate" ->
               << <<250, 250>>, <<700, 400>>, <<900, 200>>, <<400, 500>>,
                  <<300, 350>>, <<600, 300>>, <<500, 200>>, <<800, 450>> >>
          [] z = "Tunnels" ->
               << <<200, 200>>, <<500, 200>>, <<800, 200>>, <<300, 350>>,
                  <<600, 350>>, <<200, 500>>, <<500, 500>>, <<800, 500>>,
                  <<400, 250>>, <<700, 450>>, <<350, 400>>, <<550, 300>> >>
          [] OTHER ->
               << <<800, 300>>, <<600, 400>>, <<400, 200>>, <<500, 300>>,
                  <<700, 350>> >>]

\* randomize_spawns.is_position_safe with its default padding of 40.
is_position_safe(zone, x, y) ==
    /\ ~(x < 60 \/ x > WIDTH - 100 \/ y < 60 \/ y > HEIGHT - 100)
    /\ \A i \in 1..Len(ZoneData[zone].obstacles) :
          ~colliderect(Rect(x - 20, y - 20, 40, 40), ZoneData[zone].obstacles[i])

\* randomize_spawns: the candidates filtered by is_position_safe (no zone
\* ends up empty, so the default lists are not used).
safe_zones ==
    [z \in Zones |->
        SelectSeq(safe_zones_raw[z], LAMBDA p : is_position_safe(z, p[1], p[2]))]

\* The order in which randomize_spawns asks get_unique_position for a place:
\* the three keys, the three clues, the gun, then ammo_count boxes per zone.
SpawnCalls(ammo_count) ==
    << <<"key", "Ground">>, <<"key", "Estate">>, <<"key", "Tunnels">>,
       <<"clue", "Ground">>, <<"clue", "Estate">>, <<"clue", "Tunnels">>,
       <<"gun", "Ground">> >>
    \o [i \in 1..ammo_count |-> <<"ammo", "Ground">>]
    \o [i \in 1..ammo_count |-> <<"ammo", "Estate">>]
    \o [i \in 1..ammo_count |-> <<"ammo", "Tunnels">>]

\* randomize_spawns.get_unique_position: a position of the zone not used so
\* far (in any zone).  random.choice is the input r: the position taken is
\* the one at index r (modulo their number) among the available ones.
get_unique_position(zone, used, r) ==
    LET available == SelectSeq(safe_zones[zone], LAMBDA p : p \notin used)
    IN  IF Len(available) = 0 THEN safe_zones[zone][1]
        ELSE available[(r % Len(available)) + 1]

\* The positions of calls 1..n, in call order.
RECURSIVE SpawnPositions(_, _, _)
SpawnPositions(calls, n, r) ==
    IF n = 0 THEN << >>
    ELSE LET before == SpawnPositions(calls, n - 1, r)
             used == {before[i] : i \in 1..Len(before)}
         IN  Append(before, get_unique_position(calls[n][2], used, r))

\* randomize_spawns: the items dictionary built from the chosen positions.
randomize_spawns(ammo_count, r) ==
    LET calls == SpawnCalls(ammo_count)
        pos == SpawnPositions(calls, Len(calls), r)
        at(kind, zone, w, h) ==
            LET idx == {i \in 1..Len(calls) : calls[i] = <<kind, zone>>}
            IN  [k \in 1..Cardinality(idx) |->
                    LET i == CHOOSE j \in idx :
                                 Cardinality({m \in idx : m < j}) = k - 1
                    IN  Rect(pos[i][1], pos[i][2], w, h)]
        one(kind, zone, w, h) ==
            {at(kind, zone, w, h)[k] : k \in 1..Len(at(kind, zone, w, h))}
    IN  [z \in Zones |->
            IF z = "Harbor" THEN [gun |-> {}, ammo |-> << >>, clue |-> {}, key |-> {}]
            ELSE [gun |-> one("gun", z, 24, 12),
                  ammo |-> at("ammo", z, 16, 10),
                  clue |-> one("clue", z, 20, 14),
                  key |-> one("key", z, 18, 12)]]

\* ------------------------------------------------------------ state
VARIABLES
    state,                 \* Game.state: "menu" | "playing"
    selected_difficulty,   \* Game.selected_difficulty, 0-based
    profile,               \* Game.profile
    zone,                  \* Game.zone
    player,                \* Game.player
    message,               \* Game.message, by kind
    message_time,          \* Game.message_time
    pathway_cooldown,      \* Game.pathway_cooldown
    pathway_hint_cooldown, \* Game.pathway_hint_cooldown
    damage_flash_timer,    \* Game.damage_flash_timer
    game_over,             \* Game.game_over
    victory,               \* Game.victory
    bullets,               \* Game.bullets
    guards,                \* Game.guards: zone -> list of guards
    npcs,                  \* Game.npcs
    collected,             \* Game.collected
    items,                 \* Game.items
    audio,                 \* Game.audio
    ev                     \* what the last step did (history, not program state)

world == <<zone, player, message, message_time, pathway_cooldown,
           pathway_hint_cooldown, damage_flash_timer, game_over, victory,
           bullets, guards, npcs, collected, items, audio>>
vars == <<state, selected_difficulty, profile, world, ev>>

\* ------------------------------------------------------------ entities.py
\* Player.__init__
Player(x, y, prof) ==
    [x |-> x, y |-> y,
     look_dir |-> <<1, 0>>,
     muzzle_timer |-> 0,
     health |-> prof.player_health,
     stamina |-> MAX_STAMINA * 100,
     has_gun |-> FALSE,
     ammo |-> 0,
     keys |-> [k \in {"jail_key", "cave_key", "boat_key"} |-> FALSE],
     clues |-> 0,
     rescued_npcs |-> 0,
     fire_cooldown |-> 0]

\* The player's rectangle: Character.__init__(x, y, 22, 32).
PlayerRect(p) == Rect(p.x, p.y, 22, 32)

\* NPC.__init__
NPC(x, y, z) == [x |-> x, y |-> y, zone |-> z, following |-> FALSE, rescued |-> FALSE]
NPCRect(n) == Rect(n.x, n.y, 20, 30)

Sgn(v) == IF v > 0 THEN 1 ELSE IF v < 0 THEN -1 ELSE 0

\* Vec.normalize of an integer vector, kept as its direction signs (the
\* length is not used by the model).
Normalize(d) == <<Sgn(d[1]), Sgn(d[2])>>

\* Bullet.__init__: the direction is normalised, Vec(1, 0) for a zero vector.
\* Of the position the model keeps the origin (ox, oy): where the bullet is
\* after Bullet.update is an input of the frame.
Bullet(pos, direction, owner) ==
    [ox |-> pos[1], oy |-> pos[2],
     dir |-> IF direction = <<0, 0>> THEN <<1, 0>> ELSE Normalize(direction),
     owner |-> owner,
     radius |-> IF owner = "player" THEN 4 ELSE 5,
     alive |-> TRUE]

\* A faulty handle_input: the drained stamina has no floor.
handle_input_unfloored(p, dt, stamina_drain, stamina_recover, direction, shift) ==
    IF shift /\ p.stamina > 0 /\ direction # <<0, 0>>
    THEN [p EXCEPT !.stamina = p.stamina - stamina_drain * dt]
    ELSE [p EXCEPT !.stamina = Min(MAX_STAMINA * 100, p.stamina + stamina_recover * dt)]

\* Player.handle_input(dt, stamina_drain, stamina_recover).  The keys held are
\* the inputs direction (the sum of the direction keys) and shift.
handle_input(p, dt, stamina_drain, stamina_recover, direction, shift) ==
    LET sprinting == shift /\ p.stamina > 0 /\ direction # <<0, 0>>
    IN  [p EXCEPT
            !.stamina = IF sprinting
                        THEN Max(0, p.stamina - stamina_drain * dt)
                        ELSE Min(MAX_STAMINA * 100, p.stamina + stamina_recover * dt),
            !.look_dir = IF direction # <<0, 0>> THEN Normalize(direction) ELSE @,
            !.fire_cooldown = Max(0, p.fire_cooldown - dt),
            !.muzzle_timer = Max(0, p.muzzle_timer - dt)]

\* A faulty try_shoot: the ammo is not looked at.
try_shoot_unloaded(p, target_pos) ==
    IF ~p.has_gun \/ p.fire_cooldown > 0
    THEN [player |-> p, shot |-> << >>]
    ELSE [player |-> [p EXCEPT !.ammo = p.ammo - 1,
                               !.fire_cooldown = 18,
                               !.muzzle_timer = 5],
          shot |-> << Bullet(<<centerx(PlayerRect(p)), centery(PlayerRect(p))>>,
                             <<1, 0>>, "player") >>]

\* A faulty try_shoot: the fire cooldown is not looked at.
try_shoot_hasty(p, target_pos) ==
    IF ~p.has_gun \/ p.ammo <= 0
    THEN [player |-> p, shot |-> << >>]
    ELSE [player |-> [p EXCEPT !.ammo = p.ammo - 1,
                               !.fire_cooldown = 18,
                               !.muzzle_timer = 5],
          shot |-> << Bullet(<<centerx(PlayerRect(p)), centery(PlayerRect(p))>>,
                             <<1, 0>>, "player") >>]

\* Player.try_shoot(target_pos): the player after the call and the bullet
\* returned (the empty sequence for None).
try_shoot(p, target_pos) ==
    IF ~p.has_gun \/ p.ammo <= 0 \/ p.fire_cooldown > 0
    THEN [player |-> p, shot |-> << >>]
    ELSE LET origin == <<centerx(PlayerRect(p)), centery(PlayerRect(p))>>
             direction == <<target_pos[1] - origin[1], target_pos[2] - origin[2]>>
         IN  [player |-> [p EXCEPT
                             !.ammo = p.ammo - 1,
                             !.fire_cooldown = 18,
                             !.look_dir = IF direction # <<0, 0>>
                                          THEN Normalize(direction) ELSE @,
                             !.muzzle_timer = 5],
              shot |-> << Bullet(origin, direction, "player") >>]

\* A faulty GuardUpdate: an alerted guard shoots whatever its timer says.
GuardUpdate_eager(g, dt, prect, can_see) ==
    LET centre == <<centerx(Rect(g.x, g.y, 22, 32)), centery(Rect(g.x, g.y, 22, 32))>>
        to_player == <<centerx(prect) - centre[1], centery(prect) - centre[2]>>
    IN  IF can_see
        THEN [guard |-> [g EXCEPT !.alerted = can_see,
                                  !.shoot_timer = profile.guard_shoot_cooldown,
                                  !.muzzle_timer = 5],
              shot |-> << Bullet(centre, to_player, "guard") >>]
        ELSE [guard |-> [g EXCEPT !.alerted = can_see,
                                  !.shoot_timer = Max(g.shoot_timer - dt, 0 - ShootTimerFloor),
                                  !.muzzle_timer = Max(0, g.muzzle_timer - dt)],
              shot |-> << >>]

\* Guard.update(dt, player, obstacles): the guard after the call and the
\* bullet returned.  can_see (the distance and line-of-sight test) is an input.
GuardUpdate(g, dt, prect, can_see) ==
    LET timer == Max(g.shoot_timer - dt, 0 - ShootTimerFloor)
        muzzle == Max(0, g.muzzle_timer - dt)
        centre == <<centerx(Rect(g.x, g.y, 22, 32)), centery(Rect(g.x, g.y, 22, 32))>>
        to_player == <<centerx(prect) - centre[1], centery(prect) - centre[2]>>
    IN  IF can_see /\ timer <= 0
        THEN [guard |-> [g EXCEPT !.alerted = can_see,
                                  !.shoot_timer = profile.guard_shoot_cooldown,
                                  !.muzzle_timer = 5],
              shot |-> << Bullet(centre, to_player, "guard") >>]
        ELSE [guard |-> [g EXCEPT !.alerted = can_see,
                                  !.shoot_timer = timer,
                                  !.muzzle_timer = muzzle],
              shot |-> << >>]

\* int(n / d) of Python for d > 0: the quotient cut towards 0, as
\* pygame.Rect cuts the coordinates it is given.
Trunc(n, d) == IF n >= 0 THEN n \div d ELSE 0 - ((0 - n) \div d)

\* Lines 42-47 and 50-55 of Character.move_and_collide: the walls from index
\* i on, one after the other, against the rectangle r moved along axis
\* ("x" or "y") with the velocity v of that axis.
RECURSIVE push_out(_, _, _, _, _)
push_out(r, v, axis, obstacles, i) ==
    IF i > Len(obstacles) THEN r
    ELSE IF ~colliderect(r, obstacles[i]) \/ v = 0
         THEN push_out(r, v, axis, obstacles, i + 1)
    ELSE IF axis = "x"
         THEN push_out([r EXCEPT !.x = IF v > 0 THEN obstacles[i].x - r.w
                                       ELSE obstacles[i].x + obstacles[i].w],
                       v, axis, obstacles, i + 1)
    ELSE push_out([r EXCEPT !.y = IF v > 0 THEN obstacles[i].y - r.h
                                  ELSE obstacles[i].y + obstacles[i].h],
                  v, axis, obstacles, i + 1)

\* Character.move_and_collide(obstacles) on the rectangle r: x first, then
\* y.  vel is in tenths of a pixel, int() cuts it to whole pixels.
move_and_collide(r, vel, obstacles) ==
    push_out([push_out([r EXCEPT !.x = @ + Trunc(vel[1], 10)],
                       vel[1], "x", obstacles, 1)
                 EXCEPT !.y = @ + Trunc(vel[2], 10)],
             vel[2], "y", obstacles, 1)

\* Line 174: the probe of step i on the way from (x1, y1) to (x2, y2), at
\* t = i / 26.
Probe(x1, y1, x2, y2, i) ==
    Rect(Trunc(26 * (x1 - 2) + (x2 - x1) * i, 26),
         Trunc(26 * (y1 - 2) + (y2 - y1) * i, 26), 4, 4)

\* A faulty _line_of_sight: only the half of the way next to the guard is
\* probed.
line_of_sight_half(g, target, obstacles) ==
    \A i \in 1..12 : \A k \in 1..Len(obstacles) :
        ~colliderect(obstacles[k],
                     Probe(centerx(Rect(g.x, g.y, 22, 32)), centery(Rect(g.x, g.y, 22, 32)),
                           target[1], target[2], i))

\* Guard._line_of_sight(target, obstacles): for i in range(1, 26).
line_of_sight(g, target, obstacles) ==
    \A i \in 1..25 : \A k \in 1..Len(obstacles) :
        ~colliderect(obstacles[k],
                     Probe(centerx(Rect(g.x, g.y, 22, 32)), centery(Rect(g.x, g.y, 22, 32)),
                           target[1], target[2], i))

\* Lines 143-145 of Guard.update: dist <= guard_sight and the line of sight;
\* the length of a vector of whole numbers is at most guard_sight exactly
\* when its square is at most the square of guard_sight.
can_see(g, prect, obstacles, sight) ==
    LET dx == centerx(prect) - centerx(Rect(g.x, g.y, 22, 32))
        dy == centery(prect) - centery(Rect(g.x, g.y, 22, 32))
    IN  /\ dx * dx + dy * dy <= sight * sight
        /\ line_of_sight(g, <<centerx(prect), centery(prect)>>, obstacles)

\* NPC.update(player, obstacles).  A follower farther than 50 from the player
\* walks towards the player at 2.2 per frame: the walk of several frames is
\* one step that ends inside the dead band, 40 to the left of and 20 below
\* the player's centre (catch), or the follower is held back (~catch).  A
\* follower nearer than 30 steps back by int(-normalize(to_player) * 1.0),
\* which is a whole pixel only along an axis.
NPCUpdate(n, prect, catch) ==
    IF n.rescued \/ ~n.following THEN n
    ELSE LET dx == centerx(prect) - centerx(NPCRect(n))
             dy == centery(prect) - centery(NPCRect(n))
             d2 == dx * dx + dy * dy
         IN  IF d2 > 50 * 50
             THEN IF catch
                  THEN [n EXCEPT !.x = centerx(prect) - 40 - 10,
                                 !.y = centery(prect) + 20 - 15]
                  ELSE n
             ELSE IF d2 < 30 * 30 /\ d2 > 0
             THEN IF dy = 0 THEN [n EXCEPT !.x = n.x - Sgn(dx)]
                  ELSE IF dx = 0 THEN [n EXCEPT !.y = n.y - Sgn(dy)]
                  ELSE n
             ELSE n

\* ------------------------------------------------------------ game.py
\* A faulty current_region_tasks: the clue of the zone is not asked for.
current_region_tasks_no_clue(z, p, ns, coll) ==
    CASE z = "Ground" ->
           << TRUE, p.keys["jail_key"], p.has_gun >>
      [] z = "Estate" ->
           << TRUE, p.keys["cave_key"],
              \E i \in 1..Len(ns) :
                  ns[i].zone = "Estate" /\ (ns[i].following \/ ns[i].rescued) >>
      [] z = "Tunnels" ->
           << TRUE, p.keys["boat_key"],
              \E i \in 1..Len(ns) :
                  ns[i].zone = "Tunnels" /\ (ns[i].following \/ ns[i].rescued) >>
      [] OTHER ->
           << p.clues >= 3, \A k \in DOMAIN p.keys : p.keys[k], p.rescued_npcs >= 2 >>

\* Game.current_region_tasks for zone z: the three "done" flags, in order.
current_region_tasks(z, p, ns, coll) ==
    CASE z = "Ground" ->
           << ClueId("Ground") \in coll, p.keys["jail_key"], p.has_gun >>
      [] z = "Estate" ->
           << ClueId("Estate") \in coll, p.keys["cave_key"],
              \E i \in 1..Len(ns) :
                  ns[i].zone = "Estate" /\ (ns[i].following \/ ns[i].rescued) >>
      [] z = "Tunnels" ->
           << ClueId("Tunnels") \in coll, p.keys["boat_key"],
              \E i \in 1..Len(ns) :
                  ns[i].zone = "Tunnels" /\ (ns[i].following \/ ns[i].rescued) >>
      [] OTHER ->
           << p.clues >= 3, \A k \in DOMAIN p.keys : p.keys[k], p.rescued_npcs >= 2 >>

\* Game.region_complete(zone), called with the current zone cur.
region_complete(z, cur, p, ns, coll) ==
    IF cur = z
    THEN \A i \in 1..3 : current_region_tasks(cur, p, ns, coll)[i]
    ELSE FALSE

\* Lines 270-273 and 280-287: the clamps of a rectangle to the walls.
ClampLeft(r) == IF r.x < 40 THEN [r EXCEPT !.x = 40] ELSE r
ClampRight(r) == IF r.x + r.w > WIDTH - 40 THEN [r EXCEPT !.x = WIDTH - 40 - r.w] ELSE r
ClampTop(r) == IF r.y < 40 THEN [r EXCEPT !.y = 40] ELSE r
ClampBottom(r) == IF r.y + r.h > HEIGHT - 40 THEN [r EXCEPT !.y = HEIGHT - 40 - r.h] ELSE r

\* Lines 249-257: in Harbor, on the pier or the boat.
OnPier(r) ==
    colliderect(Rect(800, 200, 300, 40), r) \/ colliderect(Rect(1020, 210, 80, 40), r)

\* Lines 262-267: in Harbor, in the water (rect.center = (500, 400)).
Swims(z, r) == z = "Harbor" /\ ~OnPier(r) /\ centery(r) < 200
OutOfWater(z, r) == IF Swims(z, r) THEN Rect(500 - 11, 400 - 16, r.w, r.h) ELSE r

\* Lines 276-277: in Harbor, above the pier's height and not on the pier.
BelowPierTop(r) ==
    IF r.y < 200 /\ ~colliderect(Rect(800, 200, 300, 40), r)
    THEN [r EXCEPT !.y = 200] ELSE r

HarborBounds(z, r) ==
    IF z = "Harbor" THEN BelowPierTop(ClampRight(ClampLeft(r))) ELSE r

\* Game.validate_player_position: the player's rectangle after the call.
validate_player_position(z, p) ==
    ClampBottom(ClampTop(ClampRight(ClampLeft(
        HarborBounds(z, OutOfWater(z, PlayerRect(p)))))))

\* A faulty take_damage: the game is lost only under 0 health.
take_damage_late(w, amount) ==
    [w EXCEPT !.player.health = @ - amount,
              !.damage_flash_timer = 20,
              !.game_over = IF w.player.health - amount < 0 THEN TRUE ELSE @]

\* Game.take_damage(amount) on the record w of the fields a frame changes.
take_damage(w, amount) ==
    LET health == w.player.health - amount
    IN  [w EXCEPT !.player.health = health,
                  !.damage_flash_timer = 20,
                  !.game_over = IF health <= 0 THEN TRUE ELSE @,
                  !.message = IF health <= 0 THEN "defeated" ELSE @]

\* A faulty transfer_followers: nobody is transferred.
transfer_followers_nobody(w, new_zone) == w

\* Game.transfer_followers(new_zone), npc by npc from index i; k followers
\* have been transferred so far.
RECURSIVE transfer_loop(_, _, _, _)
transfer_loop(w, new_zone, i, k) ==
    IF i > Len(w.npcs) THEN [w |-> w, n |-> k]
    ELSE LET n == w.npcs[i]
         IN  IF n.following /\ ~n.rescued /\ n.zone = w.zone
             THEN LET cx == centerx(PlayerRect(w.player)) + (0 - 40 - k * 20)
                      cy == centery(PlayerRect(w.player)) + 20
                      moved == [n EXCEPT !.zone = new_zone,
                                         !.x = cx - 10, !.y = cy - 15]
                  IN  transfer_loop([w EXCEPT !.npcs[i] = moved], new_zone, i + 1, k + 1)
             ELSE transfer_loop(w, new_zone, i + 1, k)

transfer_followers(w, new_zone) ==
    LET r == transfer_loop(w, new_zone, 1, 0)
    IN  IF r.n > 0
        THEN [r.w EXCEPT !.message = "followed", !.message_time = 200]
        ELSE r.w

\* ------------------------------------------------------------ audio.py
\* The names play() passes on to play_music_for_zone (line 266) and the
\* sound effects of _load_sound_files and _generate_procedural_sounds.
MusicNames == {"menu", "Ground", "Estate", "Tunnels", "Harbor", "combat", "victory"}

SoundNames == {"gunshot", "footstep", "item_pickup", "door", "hurt", "guard_alert"}

\* AudioManager.__init__.  mode "procedural": the mixer starts and no sound
\* file is found; "files": the mixer starts and the files of loaded are
\* found, at least one; "none": pygame.mixer.init raises pygame.error, the
\* manager is disabled and _load_sound_files never runs, so the attributes
\* sounds and music_tracks do not exist (sounds is {} then and not read).
\* The volumes are in hundredths.
AudioManager(mode, loaded) ==
    [enabled |-> mode # "none",
     using_file_sounds |-> mode = "files",
     sounds |-> IF mode = "procedural" THEN SoundNames
                ELSE IF mode = "files" THEN loaded ELSE {},
     current_music |-> "None",
     volume_duck_timer |-> 0,
     music_volume |-> 40,
     sfx_volume |-> 50]

\* The tracks of AudioManager.music_tracks: _generate_procedural_sounds makes
\* all seven, _load_sound_files loads none.
MusicTracks(a) ==
    IF a.using_file_sounds THEN {}
    ELSE {"menu", "Ground", "Estate", "Tunnels", "Harbor", "combat", "victory"}

\* What a call of the manager leaves: the manager, whether it called
\* pygame.mixer.stop(), the track it started and the exception it raised.
Eff(a) == [audio |-> a, stopped |-> FALSE, started |-> "None", raised |-> "None"]

\* AudioManager.update(dt)
audio_update(a, dt) ==
    IF a.volume_duck_timer > 0
    THEN [a EXCEPT !.volume_duck_timer = a.volume_duck_timer - dt]
    ELSE a

\* A faulty play_music_for_zone: the zone's own track wins over combat.
play_music_for_zone_calm(a, z, combat_active) ==
    IF ~a.enabled THEN Eff(a)
    ELSE LET track == IF z \in MusicTracks(a) THEN z
                      ELSE IF combat_active THEN "combat" ELSE "menu"
         IN  IF a.current_music = track THEN Eff(a)
             ELSE IF track \in MusicTracks(a)
                  THEN [Eff([a EXCEPT !.current_music = track]) EXCEPT
                           !.stopped = TRUE, !.started = track]
                  ELSE [Eff(a) EXCEPT !.stopped = TRUE]

\* AudioManager.play_music_for_zone(zone, combat_active)
play_music_for_zone(a, z, combat_active) ==
    IF ~a.enabled THEN Eff(a)
    ELSE LET track == IF combat_active THEN "combat"
                      ELSE IF z \in MusicTracks(a) THEN z ELSE "menu"
         IN  IF a.current_music = track THEN Eff(a)
             ELSE IF track \in MusicTracks(a)
                  THEN [Eff([a EXCEPT !.current_music = track]) EXCEPT
                           !.stopped = TRUE, !.started = track]
                  ELSE [Eff(a) EXCEPT !.stopped = TRUE]

\* AudioManager.play_sound(sound_name, priority): only a gunshot leaves a
\* trace in the manager's state, the ducking timer.
play_sound(a, sound_name) ==
    IF ~a.enabled \/ sound_name \notin a.sounds THEN a
    ELSE IF sound_name = "gunshot" THEN [a EXCEPT !.volume_duck_timer = 30]
    ELSE a

\* AudioManager.play(name).  Line 268 reads self.sounds, which a disabled
\* manager does not have.
play(a, name) ==
    IF name \in MusicNames THEN play_music_for_zone(a, name, name = "combat")
    ELSE IF ~a.enabled THEN [Eff(a) EXCEPT !.raised = "AttributeError"]
    ELSE IF name \in a.sounds THEN Eff(play_sound(a, name))
    ELSE Eff(a)

\* AudioManager.stop_music().  pygame.mixer.stop() is called whether or not
\* the mixer was initialised; mixer_error says whether pygame then raises
\* pygame.error on a mixer that was not.
stop_music(a, mixer_error) ==
    IF ~a.enabled /\ mixer_error THEN [Eff(a) EXCEPT !.raised = "pygame.error"]
    ELSE [Eff([a EXCEPT !.current_music = "None"]) EXCEPT !.stopped = TRUE]

\* AudioManager.set_music_volume(volume): the volume is stored, then line 334
\* reads self.music_tracks, which a disabled manager does not have.
set_music_volume(a, volume) ==
    IF ~a.enabled
    THEN [Eff([a EXCEPT !.music_volume = Max(0, Min(100, volume))]) EXCEPT
             !.raised = "AttributeError"]
    ELSE Eff([a EXCEPT !.music_volume = Max(0, Min(100, volume))])

\* AudioManager.set_sfx_volume(volume): the volume is stored, then line 340
\* reads self.sounds, which a disabled manager does not have.
set_sfx_volume(a, volume) ==
    IF ~a.enabled
    THEN [Eff([a EXCEPT !.sfx_volume = Max(0, Min(100, volume))]) EXCEPT
             !.raised = "AttributeError"]
    ELSE Eff([a EXCEPT !.sfx_volume = Max(0, Min(100, volume))])

\* ------------------------------------------------------------ Game.update
\* The fields of the game a frame reads and writes, as one record.
World ==
    [zone |-> zone, player |-> player, message |-> message,
     message_time |-> message_time, pathway_cooldown |-> pathway_cooldown,
     pathway_hint_cooldown |-> pathway_hint_cooldown,
     damage_flash_timer |-> damage_flash_timer, game_over |-> game_over,
     victory |-> victory, bullets |-> bullets, guards |-> guards,
     npcs |-> npcs, audio |-> audio]

\* A faulty FrameObstacles: Harbor's obstacles are not filtered.
FrameObstacles_unfiltered(z) == ZoneData[z].obstacles

\* Harbor's obstacle filter of Game.update: the obstacles that do not overlap
\* pier_rect.
FrameObstacles(z) ==
    IF z = "Harbor"
    THEN SelectSeq(ZoneData[z].obstacles,
                   LAMBDA o : ~colliderect(o, Rect(800, 150, 300, 40)))
    ELSE ZoneData[z].obstacles

\* Lines 382-391: the frame's timers, validate_player_position, handle_input
\* and move_and_collide.  The movement starts where validate_player_position
\* leaves the player and ends on spot.
UpdateMove(w, dt, direction, shift, spot) ==
    LET swim == Swims(w.zone, PlayerRect(w.player))
        p2 == handle_input(w.player, dt, profile.stamina_drain,
                           profile.stamina_recover, direction, shift)
    IN  [w EXCEPT
            !.audio = audio_update(w.audio, dt),
            !.pathway_cooldown = Max(0, w.pathway_cooldown - dt),
            !.pathway_hint_cooldown = Max(0, w.pathway_hint_cooldown - dt),
            !.damage_flash_timer = Max(0, w.damage_flash_timer - dt),
            !.message = IF swim THEN "swim" ELSE @,
            !.message_time = IF swim THEN 200 ELSE @,
            !.player = [p2 EXCEPT !.x = spot.x, !.y = spot.y]]

\* Lines 393-405: the guard pass over list(self.guards[self.zone]), guard by
\* guard from index i of the snapshot, then the music.  acc carries the
\* world, the guards updated, the calls of Guard.update in order (calls),
\* the guards that returned a bullet and whether one of them is alerted.
RECURSIVE guard_loop(_, _, _, _, _)
guard_loop(acc, snapshot, i, dt, see) ==
    IF i > Len(snapshot) THEN acc
    ELSE LET g == snapshot[i]
             r == GuardUpdate(g, dt, PlayerRect(acc.w.player), g.id \in see)
             z == acc.w.zone
             \* the guard updated in place, removed when its health is <= 0
             list == acc.w.guards[z]
             after == [k \in 1..Len(list) |->
                          IF list[k].id = g.id THEN r.guard ELSE list[k]]
             kept == IF r.guard.health <= 0
                     THEN SelectSeq(after, LAMBDA x : x.id # g.id)
                     ELSE after
         IN  guard_loop(
                 [w |-> [acc.w EXCEPT !.guards[z] = kept,
                                      !.bullets = acc.w.bullets \o r.shot],
                  updated |-> acc.updated \cup {g.id},
                  calls |-> Append(acc.calls, g.id),
                  fired |-> IF r.shot # << >> THEN acc.fired \cup {g.id} ELSE acc.fired,
                  any_alert |-> acc.any_alert \/ r.guard.alerted],
                 snapshot, i + 1, dt, see)

\* A faulty UpdateGuards: the pass runs over the list itself, so the guard
\* after a removed one is skipped.
UpdateGuards_live(w, dt, see) ==
    LET list == w.guards[w.zone]
        r == guard_loop([w |-> w, updated |-> {}, calls |-> << >>, fired |-> {},
                         any_alert |-> FALSE],
                        SelectSeq(list, LAMBDA x :
                            \A k \in 1..(Len(list) - 1) :
                                list[k + 1].id = x.id => list[k].health > 0),
                        1, dt, see)
    IN  [r EXCEPT !.w.audio =
                      play_music_for_zone(r.w.audio, r.w.zone, r.any_alert).audio]

\* A faulty UpdateGuards: the guards of the other zones are updated too, out
\* of the player's sight.
UpdateGuards_everywhere(w, dt, see) ==
    LET r == guard_loop([w |-> w, updated |-> {}, calls |-> << >>, fired |-> {},
                         any_alert |-> FALSE],
                        w.guards[w.zone], 1, dt, see)
    IN  [r EXCEPT !.w.audio =
                      play_music_for_zone(r.w.audio, r.w.zone, r.any_alert).audio,
                  !.w.guards =
                      [z \in Zones |->
                          IF z = w.zone THEN r.w.guards[z]
                          ELSE [k \in 1..Len(w.guards[z]) |->
                                   GuardUpdate(w.guards[z][k], dt,
                                               PlayerRect(w.player), FALSE).guard]]]

UpdateGuards(w, dt, see) ==
    LET r == guard_loop([w |-> w, updated |-> {}, calls |-> << >>, fired |-> {},
                         any_alert |-> FALSE],
                        w.guards[w.zone], 1, dt, see)
    IN  [r EXCEPT !.w.audio =
                      play_music_for_zone(r.w.audio, r.w.zone, r.any_alert).audio]

\* A faulty Rescues: an NPC already rescued is rescued again.
Rescues_again(n, z) ==
    n.following /\ z = "Harbor" /\ centerx(NPCRect(n)) > 1010

\* Line 410: the NPC n, updated, is rescued in zone z.
Rescues(n, z) ==
    n.following /\ z = "Harbor" /\ centerx(NPCRect(n)) > 1010 /\ ~n.rescued

\* Lines 407-413: the NPC pass, npc by npc from index i.
RECURSIVE npc_loop(_, _, _)
npc_loop(w, i, catch) ==
    IF i > Len(w.npcs) THEN w
    ELSE LET n == w.npcs[i]
         IN  IF n.zone # w.zone THEN npc_loop(w, i + 1, catch)
             ELSE LET n1 == NPCUpdate(n, PlayerRect(w.player), catch)
                      rescue == Rescues(n1, w.zone)
                  IN  npc_loop(
                          [w EXCEPT
                              !.npcs[i] = [n1 EXCEPT !.rescued = IF rescue THEN TRUE ELSE @],
                              !.player.rescued_npcs = IF rescue THEN @ + 1 ELSE @],
                          i + 1, catch)

\* A faulty HitGuard: the hit heals.
HitGuard_heal(g, damage) == [g EXCEPT !.health = @ + damage]

\* Line 426: a player's bullet hits guard g.
HitGuard(g, damage) == [g EXCEPT !.health = @ - damage]

\* A faulty RemoveSpent: a bullet that hit stays in the list, not alive.
RemoveSpent_never(kept, b) == Append(kept, [b EXCEPT !.alive = FALSE])

\* Lines 429-430: a bullet that hit a target is not alive and is removed.
RemoveSpent(kept, b) == kept

\* Lines 415-430: the bullet pass over list(self.bullets), bullet by bullet
\* from index i of the snapshot.  fate[i] is where Bullet.update takes bullet
\* i: -1 out of the world or into an obstacle (not alive), 0 on its way,
\* k >= 1 onto a target: the player for a guard's bullet, for the player's
\* bullet the guard at index k of self.guards[self.zone] (the first whose
\* rectangle holds the point).  acc carries the world, the bullets kept so
\* far, the guards hit, one entry per hit, the number of hits on the player
\* and the number of calls of Bullet.update (moved).
RECURSIVE bullet_loop(_, _, _, _)
bullet_loop(acc, snapshot, i, fate) ==
    IF i > Len(snapshot) THEN [acc EXCEPT !.w.bullets = acc.kept]
    ELSE LET b == snapshot[i]
             w == acc.w
             at == [acc EXCEPT !.moved = @ + 1]
             gs == w.guards[w.zone]
         IN  IF fate[i] = -1 \/ ~b.alive
             THEN bullet_loop(at, snapshot, i + 1, fate)
             ELSE IF b.owner = "guard" /\ fate[i] >= 1
             THEN bullet_loop([at EXCEPT !.w = take_damage(w, profile.guard_damage),
                                          !.struck = @ + 1,
                                          !.kept = RemoveSpent(@, b)],
                              snapshot, i + 1, fate)
             ELSE IF b.owner = "player" /\ fate[i] >= 1 /\ fate[i] <= Len(gs)
             THEN bullet_loop(
                      [at EXCEPT
                          !.w.guards[w.zone][fate[i]] =
                              HitGuard(gs[fate[i]], profile.player_damage),
                          !.hits = Append(@, gs[fate[i]].id),
                          !.kept = RemoveSpent(@, b)],
                      snapshot, i + 1, fate)
             ELSE bullet_loop([at EXCEPT !.kept = Append(@, b)], snapshot, i + 1, fate)

UpdateBullets(w, fate) ==
    bullet_loop([w |-> w, kept |-> << >>, hits |-> << >>, struck |-> 0, moved |-> 0],
                w.bullets, 1, fate)

\* Line 437: the gate needs a key the player does not hold.
GateLocked(gate, p) ==
    gate.required_key # "none" /\ ~p.keys[gate.required_key]

\* A faulty GateNeedsTasks: no gate waits for the tasks of the zone.
GateNeedsTasks_never(gate, w, coll) == FALSE

\* Lines 443-446: the gate leads forward and the region is not complete.
GateNeedsTasks(gate, w, coll) ==
    /\ RegionIndex(gate.target_zone) > RegionIndex(w.zone)
    /\ ~region_complete(w.zone, w.zone, w.player, w.npcs, coll)

\* A faulty GateTransition: the player is not moved to the spawn point.
GateTransition_stay(gate, w) ==
    [transfer_followers(w, gate.target_zone) EXCEPT
        !.zone = gate.target_zone,
        !.pathway_cooldown = 70,
        !.audio = play_sound(@, "door"),
        !.message = "entered"]

\* A faulty GateTransition: the pathway cooldown is not set.
GateTransition_no_cooldown(gate, w) ==
    [transfer_followers(w, gate.target_zone) EXCEPT
        !.zone = gate.target_zone,
        !.player.x = gate.spawn.x,
        !.player.y = gate.spawn.y,
        !.audio = play_sound(@, "door"),
        !.message = "entered"]

\* A faulty GateTransition: every gate leads to Harbor.
GateTransition_far(gate, w) ==
    [transfer_followers(w, "Harbor") EXCEPT
        !.zone = "Harbor",
        !.player.x = gate.spawn.x,
        !.player.y = gate.spawn.y,
        !.pathway_cooldown = 70,
        !.audio = play_sound(@, "door"),
        !.message = "entered"]

\* Lines 452-467: the transition through gate.
GateTransition(gate, w) ==
    LET w1 == transfer_followers(w, gate.target_zone)
        y1 == IF gate.target_zone = "Harbor"
                 /\ centery(Rect(gate.spawn.x, gate.spawn.y, 22, 32)) < 300
              THEN 400 - 16 ELSE gate.spawn.y
    IN  [w1 EXCEPT !.zone = gate.target_zone,
                   !.player.x = gate.spawn.x,
                   !.player.y = y1,
                   !.pathway_cooldown = 70,
                   !.audio = play_sound(w1.audio, "door"),
                   !.message = "entered"]

\* A faulty HintDue: the hint cooldown is not looked at.
HintDue_always(w) == TRUE

\* Lines 438 and 447: the hint cooldown has run out.
HintDue(w) == w.pathway_hint_cooldown <= 0

\* Lines 433-468: the gate loop over the gates of the zone the frame started
\* in, from index i.  acc carries the world, the number of gates whose
\* overlap test ran and the number of transitions made.
RECURSIVE gate_loop(_, _, _, _)
gate_loop(acc, gates, i, coll) ==
    IF i > Len(gates) \/ acc.w.pathway_cooldown > 0 THEN acc
    ELSE LET gate == gates[i]
             w == acc.w
             tested == [acc EXCEPT !.evaluated = @ + 1]
             hint(kind) ==
                 IF HintDue(w)
                 THEN [tested EXCEPT !.w.message = kind,
                                     !.w.pathway_hint_cooldown = 100]
                 ELSE tested
         IN  IF ~colliderect(PlayerRect(w.player), gate.rect)
             THEN gate_loop(tested, gates, i + 1, coll)
             ELSE IF GateLocked(gate, w.player)
             THEN gate_loop(hint("locked"), gates, i + 1, coll)
             ELSE IF GateNeedsTasks(gate, w, coll)
             THEN gate_loop(hint("tasks"), gates, i + 1, coll)
             ELSE [tested EXCEPT !.w = GateTransition(gate, w),
                                 !.transitions = @ + 1]

UpdateGates(w, gates, coll) ==
    gate_loop([w |-> w, evaluated |-> 0, transitions |-> 0], gates, 1, coll)

\* A faulty ReadyToLeave: the survivors are not counted.
ReadyToLeave_alone(p) == p.clues >= 3 /\ (\A k \in DOMAIN p.keys : p.keys[k])

\* Line 471: the victory condition of the extraction check.
ReadyToLeave(p) ==
    p.clues >= 3 /\ (\A k \in DOMAIN p.keys : p.keys[k]) /\ p.rescued_npcs >= 2

\* Line 470: the player's rectangle overlaps the extraction rectangle.
AtExtraction(w, extraction) ==
    \E e \in extraction : colliderect(PlayerRect(w.player), e)

\* A faulty ExtractionCheck: the rejection also sets the message timer.
ExtractionCheck_timed(w, extraction) ==
    IF AtExtraction(w, extraction)
    THEN IF ReadyToLeave(w.player)
         THEN [w EXCEPT !.victory = TRUE,
                        !.audio = play_sound(w.audio, "victory")]
         ELSE [w EXCEPT !.message = "not_ready", !.message_time = 200]
    ELSE w

\* Lines 470-475: the extraction check against the extraction rectangle of
\* the zone the frame started in.
ExtractionCheck(w, extraction) ==
    IF AtExtraction(w, extraction)
    THEN IF ReadyToLeave(w.player)
         THEN [w EXCEPT !.victory = TRUE,
                        !.audio = play_sound(w.audio, "victory")]
         ELSE [w EXCEPT !.message = "not_ready"]
    ELSE w

\* Line 477: the message timer.
MessageTimer(w, dt) == [w EXCEPT !.message_time = Max(0, w.message_time - dt)]

\* ------------------------------------------------------------ Game.interact
\* A faulty NotCollected: the collected set is not looked at.
NotCollected_always(id, coll) == TRUE

\* Lines 510, 519, 527: the item's identifier is not in Game.collected yet.
NotCollected(id, coll) == id \notin coll

\* Lines 517-523: the ammo boxes of the zone, box by box from index i
\* (boxes[i] is the box enumerate numbers i - 1).
RECURSIVE interact_ammo(_, _, _)
interact_ammo(a, boxes, i) ==
    IF i > Len(boxes) THEN a
    ELSE IF colliderect(a.rect, boxes[i]) /\ NotCollected(AmmoId(a.zone, i - 1), a.collected)
    THEN interact_ammo(
             [a EXCEPT !.collected = @ \cup {AmmoId(a.zone, i - 1)},
                       !.player.ammo = @ + 12,
                       !.any = TRUE,
                       !.message = "ammo"],
             boxes, i + 1)
    ELSE interact_ammo(a, boxes, i + 1)

\* Lines 539-543: the NPCs, npc by npc from index i.
RECURSIVE interact_npcs(_, _)
interact_npcs(a, i) ==
    IF i > Len(a.npcs) THEN a
    ELSE LET n == a.npcs[i]
         IN  IF /\ n.zone = a.zone
                /\ ~n.following
                /\ ~n.rescued
                /\ colliderect(a.rect, inflate(NPCRect(n), 24, 24))
             THEN interact_npcs([a EXCEPT !.npcs[i].following = TRUE,
                                          !.any = TRUE,
                                          !.message = "survivor"], i + 1)
             ELSE interact_npcs(a, i + 1)

\* Game.interact on the record a of the fields it reads and writes.
interact(a) ==
    LET it == a.items[a.zone]
        k == ZoneKey(a.zone)
        a1 == IF (\E g \in it.gun : colliderect(a.rect, g)) /\ NotCollected(GunId, a.collected)
              THEN [a EXCEPT !.collected = @ \cup {GunId},
                             !.player.has_gun = TRUE,
                             !.player.ammo = @ + 20,
                             !.any = TRUE,
                             !.message = "pistol"]
              ELSE a
        a2 == interact_ammo(a1, it.ammo, 1)
        a3 == IF (\E c \in it.clue : colliderect(a.rect, c))
                 /\ NotCollected(ClueId(a.zone), a2.collected)
              THEN [a2 EXCEPT !.collected = @ \cup {ClueId(a.zone)},
                              !.player.clues = @ + 1,
                              !.any = TRUE,
                              !.message = "clue"]
              ELSE a2
        a4 == IF (\E r \in it.key : colliderect(a.rect, r)) /\ ~a3.player.keys[k]
              THEN [a3 EXCEPT !.player.keys[k] = TRUE,
                              !.any = TRUE,
                              !.message = "key"]
              ELSE a3
        a5 == interact_npcs(a4, 1)
    IN  IF a5.any
        THEN [a5 EXCEPT !.audio = play_sound(a5.audio, "item_pickup"),
                        !.message_time = 200]
        ELSE a5

\* ------------------------------------------------------------ actions
Pos(x, y) == [x |-> x, y |-> y]

\* What the last step did (history, not state of the program): the operation
\* and, for a frame, its dt, the guards updated and the guards hit, the
\* player's place, the pathway cooldown and the region's completion when the
\* gate loop started, the gates tested and the transitions made, whether the
\* player was on the extraction rectangle at the extraction check and the
\* fields the check changed; for a shot the bullet returned, for an
\* interaction whether something was picked up.  since is the dt accumulated
\* by the frames after the last transition, up to 0.7 s; start is its value
\* before any step.  For a frame also: the guards updated that saw the
\* player (see), those that returned a bullet (fired), whether a guard was
\* alerted, the player's place when the guard pass started (px, py), the
\* hits of guards' bullets on the player (struck).  shot_age is, per guard,
\* the dt of its updates since its last bullet, up to guard_shoot_cooldown.
\* For a call of AudioManager: whether it stopped the mixer, the track it
\* started ("None": none), the exception it raised ("None": none) and its
\* arguments.  For a frame also the calls of Guard.update, in order
\* (guard_calls), and the number of calls of Bullet.update (bullet_calls).
NoEv(op, since, shot_age) ==
    [op |-> op, dt |-> 0, updated |-> {}, hits |-> << >>, gx |-> 0, gy |-> 0,
     cooldown |-> 0, done |-> FALSE, evaluated |-> 0, transitions |-> 0,
     since |-> since, at_extraction |-> FALSE, check_changed |-> {},
     shot |-> << >>, any |-> FALSE,
     see |-> {}, fired |-> {}, any_alert |-> FALSE, px |-> 0, py |-> 0,
     struck |-> 0, shot_age |-> shot_age,
     stopped |-> FALSE, started |-> "None", raised |-> "None", args |-> << >>,
     guard_calls |-> << >>, bullet_calls |-> 0]

Ev(op) == NoEv(op, ev.since, ev.shot_age)

\* Game.__init__, but for the AudioManager.
InitGame ==
    /\ state = "menu"
    /\ selected_difficulty = 1
    /\ profile = DIFFICULTIES[2]
    /\ zone = "Ground"
    /\ player = Player(100, 600, DIFFICULTIES[2])
    /\ message = "choose"
    /\ message_time = 0
    /\ pathway_cooldown = 0
    /\ pathway_hint_cooldown = 0
    /\ damage_flash_timer = 0
    /\ game_over = FALSE
    /\ victory = FALSE
    /\ bullets = << >>
    /\ guards = [z \in Zones |-> << >>]
    /\ npcs = << >>
    /\ collected = {}
    /\ items = build_items
    /\ ev = NoEv("init", 70, << >>)

\* Game.__init__ with the audio backend initialised and procedural sounds.
Init ==
    /\ InitGame
    /\ audio = AudioManager("procedural", {})

\* Game.events, state "menu": K_UP / K_w (step = -1), K_DOWN / K_s (step = 1).
MenuSelect(step) ==
    /\ state = "menu"
    /\ selected_difficulty' = (selected_difficulty + step) % Len(DIFFICULTIES)
    /\ ev' = Ev("menu")
    /\ UNCHANGED <<state, profile, world>>

\* Game.events, state "menu": K_RETURN / K_SPACE, reset_round(profile).  The
\* random draws are inputs: t0 the guards' first shoot timer, ammo_count the
\* number of ammo boxes per zone, r the choice of get_unique_position.
reset_round(t0, ammo_count, r) ==
    /\ state = "menu"
    /\ profile' = DIFFICULTIES[selected_difficulty + 1]
    /\ state' = "playing"
    /\ zone' = "Ground"
    /\ player' = Player(100, 550, profile')
    /\ bullets' = << >>
    /\ collected' = {}
    /\ npcs' = << NPC(350, 300, "Estate"), NPC(500, 350, "Tunnels") >>
    /\ guards' = build_guards(profile', t0)
    /\ items' = randomize_spawns(ammo_count, r)
    /\ game_over' = FALSE
    /\ victory' = FALSE
    /\ damage_flash_timer' = 0
    /\ message' = "difficulty"
    /\ message_time' = 300
    /\ ev' = NoEv("reset", ev.since,
                  [id \in UNION {{guards'[z][i].id : i \in 1..Len(guards'[z])} : z \in Zones}
                      |-> profile'.guard_shoot_cooldown])
    /\ UNCHANGED <<selected_difficulty, pathway_cooldown, pathway_hint_cooldown, audio>>

\* Where the frame's movement starts: the place validate_player_position
\* leaves the player at.
StartOfMove ==
    Pos(validate_player_position(zone, player).x,
        validate_player_position(zone, player).y)

\* The number of bullets the bullet pass of the frame finds: those in flight
\* and those the guard pass adds.
InFlight(w, dt, direction, shift, spot, see) ==
    Len(UpdateGuards(UpdateMove(w, dt, direction, shift, spot), dt, see).w.bullets)

\* Game.update(dt) on the world w: the passes in the order of the code.  The
\* result carries the world after the frame and what the frame did: the
\* world when the guard pass starts (at_guards), the guards updated, those
\* that fired, whether one was alerted, the hits on the player, the guards
\* hit, the world when the gate loop starts (at_gates), the gates tested, the
\* transitions made, the world before and after the extraction check.
update(w, coll, dt, direction, shift, spot, see, fate, catch) ==
    LET w1 == UpdateMove(w, dt, direction, shift, spot)
        g == UpdateGuards(w1, dt, see)
        w3 == npc_loop(g.w, 1, catch)
        b == UpdateBullets(w3, fate)
        t == UpdateGates(b.w, ZoneData[w.zone].gates, coll)
        x == ExtractionCheck(t.w, ZoneData[w.zone].extraction)
    IN  [w |-> MessageTimer(x, dt),
         updated |-> g.updated,
         guard_calls |-> g.calls,
         bullet_calls |-> b.moved,
         fired |-> g.fired,
         any_alert |-> g.any_alert,
         at_guards |-> w1,
         hits |-> b.hits,
         struck |-> b.struck,
         at_gates |-> b.w,
         evaluated |-> t.evaluated, transitions |-> t.transitions,
         at_check |-> t.w, checked |-> x]

\* Game.run: one frame of Game.update(dt), taken while playing and neither
\* lost nor won.  The inputs of the frame: dt, the keys held (direction,
\* shift), the spot the movement ends on, the guards that see the player,
\* the bullets' fates and whether the followers catch up.
Update(dt, direction, shift, spot, see, fate, catch) ==
    /\ state = "playing" /\ ~game_over /\ ~victory
    /\ direction = <<0, 0>> => spot = StartOfMove
    /\ InFlight(World, dt, direction, shift, spot, see) <= MaxBullets
    /\ DOMAIN fate = 1..InFlight(World, dt, direction, shift, spot, see)
    /\ \E f \in {update(World, collected, dt, direction, shift, spot, see, fate, catch)} :
           /\ zone' = f.w.zone
           /\ player' = f.w.player
           /\ message' = f.w.message
           /\ message_time' = f.w.message_time
           /\ pathway_cooldown' = f.w.pathway_cooldown
           /\ pathway_hint_cooldown' = f.w.pathway_hint_cooldown
           /\ damage_flash_timer' = f.w.damage_flash_timer
           /\ game_over' = f.w.game_over
           /\ victory' = f.w.victory
           /\ bullets' = f.w.bullets
           /\ guards' = f.w.guards
           /\ npcs' = f.w.npcs
           /\ audio' = f.w.audio
           /\ ev' = [Ev("update") EXCEPT
                        !.dt = dt,
                        !.updated = f.updated,
                        !.guard_calls = f.guard_calls,
                        !.bullet_calls = f.bullet_calls,
                        !.see = see \cap f.updated,
                        !.fired = f.fired,
                        !.any_alert = f.any_alert,
                        !.px = f.at_guards.player.x, !.py = f.at_guards.player.y,
                        !.shot_age =
                            [id \in DOMAIN ev.shot_age |->
                                IF id \in f.fired THEN 0
                                ELSE IF id \in f.updated
                                THEN Min(profile.guard_shoot_cooldown, ev.shot_age[id] + dt)
                                ELSE ev.shot_age[id]],
                        !.hits = f.hits,
                        !.struck = f.struck,
                        !.gx = f.at_gates.player.x, !.gy = f.at_gates.player.y,
                        !.cooldown = f.at_gates.pathway_cooldown,
                        !.done = region_complete(zone, zone, f.at_gates.player,
                                                 f.at_gates.npcs, collected),
                        !.evaluated = f.evaluated, !.transitions = f.transitions,
                        !.since = IF f.transitions > 0 THEN 0
                                  ELSE Min(70, ev.since + dt),
                        !.at_extraction =
                            AtExtraction(f.at_check, ZoneData[zone].extraction),
                        !.check_changed =
                            {k \in DOMAIN f.checked : f.checked[k] # f.at_check[k]}]
    /\ UNCHANGED <<state, selected_difficulty, profile, collected, items>>

\* Game.events, state "playing": K_e, Game.interact().
Interact ==
    /\ state = "playing"
    /\ \E a \in {interact([zone |-> zone, rect |-> PlayerRect(player),
                           player |-> player, collected |-> collected,
                           npcs |-> npcs, items |-> items, audio |-> audio,
                           message |-> message, message_time |-> message_time,
                           any |-> FALSE])} :
           /\ player' = a.player
           /\ collected' = a.collected
           /\ npcs' = a.npcs
           /\ audio' = a.audio
           /\ message' = a.message
           /\ message_time' = a.message_time
           /\ ev' = [Ev("interact") EXCEPT !.any = a.any]
    /\ UNCHANGED <<state, selected_difficulty, profile, zone, pathway_cooldown,
                   pathway_hint_cooldown, damage_flash_timer, game_over, victory,
                   bullets, guards, items>>

\* Game.events, state "playing": the left mouse button, Player.try_shoot at
\* the mouse position.
Shoot(target_pos) ==
    /\ state = "playing"
    /\ \E r \in {try_shoot(player, target_pos)} :
           /\ Len(bullets) + Len(r.shot) <= MaxBullets
           /\ player' = r.player
           /\ bullets' = bullets \o r.shot
           /\ audio' = IF r.shot # << >> THEN play_sound(audio, "gunshot") ELSE audio
           /\ ev' = [Ev("shoot") EXCEPT !.shot = r.shot]
    /\ UNCHANGED <<state, selected_difficulty, profile, zone, message, message_time,
                   pathway_cooldown, pathway_hint_cooldown, damage_flash_timer,
                   game_over, victory, guards, npcs, collected, items>>

\* ------------------------------------------------------------ inputs
DtSet == {DtShort, DtLong}

\* A place where the player's rectangle overlaps no obstacle of the frame.
Free(z, c) ==
    \A i \in 1..Len(FrameObstacles(z)) :
        ~colliderect(Rect(c.x, c.y, 22, 32), FrameObstacles(z)[i])

\* The places on the way through zone z a movement of the player may end on:
\* where the round starts, where a gate puts the player, inside each gate, on
\* the pistol, the clue and the key, next to each survivor's first place, on
\* the boat.
RouteSpots(z) ==
    LET gs == ZoneData[z].gates
        cand ==
            (IF z = "Ground" THEN {Pos(100, 550)} ELSE {})
            \cup UNION {{ZoneData[y].gates[i].spawn : i \in
                            {j \in 1..Len(ZoneData[y].gates) :
                                 ZoneData[y].gates[j].target_zone = z}} : y \in Zones}
            \cup {Pos(gs[i].rect.x + 8, gs[i].rect.y + 8) : i \in 1..Len(gs)}
            \cup {Pos(r.x, r.y) : r \in items[z].gun \cup items[z].clue \cup items[z].key}
            \cup (IF z = "Estate" THEN {Pos(350, 300)} ELSE {})
            \cup (IF z = "Tunnels" THEN {Pos(500, 350)} ELSE {})
            \cup {Pos(e.x + 10, e.y + 5) : e \in ZoneData[z].extraction}
            \cup {Pos(e.x + 50, e.y + 5) : e \in ZoneData[z].extraction}
    IN  {c \in cand : Free(z, c)}

\* The places of the ammo boxes of zone z.
AmmoSpots(z) ==
    {c \in {Pos(items[z].ammo[i].x, items[z].ammo[i].y) : i \in 1..Len(items[z].ammo)} :
        Free(z, c)}

\* The keys held for a movement that ends on spot: none to stay in place.
KeysFor(spot) == IF spot = StartOfMove THEN <<0, 0>> ELSE <<1, 0>>

\* ------------------------------------------------------------ Spec
\* The round as a walk through the zones: the player starts a round at the
\* default difficulty, walks from spot to spot out of the guards' sight,
\* without sprinting and without shooting, and interacts.
StartRound == reset_round(50, 2, 0)

Walk ==
    \E dt \in DtSet, spot \in RouteSpots(zone) :
        Update(dt, KeysFor(spot), FALSE, spot, {}, << >>, TRUE)

Next == StartRound \/ Walk \/ Interact

Spec == Init /\ [][Next]_vars

\* ------------------------------------------------------------ SpecItems
\* The pickups of Ground: the player walks between the start, the pistol, the
\* clue, the key and the ammo boxes, and interacts.
ItemSpots(z) ==
    {c \in {Pos(r.x, r.y) : r \in items[z].gun \cup items[z].clue \cup items[z].key} :
        Free(z, c)}
    \cup AmmoSpots(z)

ItemsWalk ==
    \E spot \in ItemSpots(zone) \cup {Pos(100, 550)} :
        Update(DtLong, KeysFor(spot), FALSE, spot, {}, << >>, TRUE)

NextItems == StartRound \/ ItemsWalk \/ Interact

SpecItems == Init /\ [][NextItems]_vars

\* ------------------------------------------------------------ SpecArms
\* The pistol: the player walks from the start to the pistol, takes it and
\* shoots, at the own centre or at the middle of the screen; the bullets
\* fly on or leave the world.
ArmsSpots(z) == {c \in {Pos(r.x, r.y) : r \in items[z].gun} : Free(z, c)}

Targets ==
    { <<centerx(PlayerRect(player)), centery(PlayerRect(player))>>,
      <<WIDTH \div 2, HEIGHT \div 2>> }

ShootAt == \E target_pos \in Targets : Shoot(target_pos)

ArmsFrame ==
    \E spot \in ArmsSpots(zone) \cup {Pos(100, 550)}, f \in {-1, 0} :
        Update(DtLong, KeysFor(spot), FALSE, spot, {},
               [i \in 1..Len(bullets) |-> f], TRUE)

NextArms == StartRound \/ ArmsFrame \/ Interact \/ ShootAt

SpecArms == Init /\ [][NextArms]_vars

\* ------------------------------------------------------------ SpecCombat
\* The fight in Ground: the player takes the pistol and shoots; the first
\* guard of the zone may see the player; the bullets of a frame all leave
\* the world or all hit: a guard's bullet the player, the player's bullet
\* the first guard of the zone.
FirstGuard == {guards[zone][i].id : i \in 1..Min(1, Len(guards[zone]))}

CombatFrame ==
    \E spot \in ArmsSpots(zone), see \in SUBSET FirstGuard, f \in {-1, 1} :
        Update(DtLong, KeysFor(spot), FALSE, spot, see,
               [i \in 1..InFlight(World, DtLong, KeysFor(spot), FALSE, spot, see) |-> f],
               TRUE)

ShootAhead == Shoot(<<WIDTH \div 2, HEIGHT \div 2>>)

NextCombat == StartRound \/ CombatFrame \/ Interact \/ ShootAhead

SpecCombat == Init /\ [][NextCombat]_vars

\* ------------------------------------------------------------ SpecInput
\* Player.handle_input on its own, with any dt, drain and recover of the
\* sets below and any keys held.  (Game.update calls it with the profile's
\* drain and recover.)
HandleInput(dt, stamina_drain, stamina_recover, direction, shift) ==
    /\ state = "playing"
    /\ player' = handle_input(player, dt, stamina_drain, stamina_recover,
                              direction, shift)
    /\ ev' = [Ev("input") EXCEPT !.dt = dt]
    /\ UNCHANGED <<state, selected_difficulty, profile, zone, message, message_time,
                   pathway_cooldown, pathway_hint_cooldown, damage_flash_timer,
                   game_over, victory, bullets, guards, npcs, collected, items,
                   audio>>

InputDts == {0, DtShort, DtLong, DtHuge}
InputRates == {0, DIFFICULTIES[2].stamina_recover, DIFFICULTIES[2].stamina_drain, RateHuge}

AnyInput ==
    \E dt \in InputDts, stamina_drain \in InputRates, stamina_recover \in InputRates,
       direction \in {<<0, 0>>, <<1, 0>>, <<-1, 1>>}, shift \in BOOLEAN :
        HandleInput(dt, stamina_drain, stamina_recover, direction, shift)

NextInput == StartRound \/ AnyInput

SpecInput == Init /\ [][NextInput]_vars

\* ------------------------------------------------------------ SpecDamage
\* Under fire: a difficulty is chosen in the menu, the player stands at the
\* start of Ground, the first guard of the zone may see the player, and the
\* bullets of a frame all leave the world, all fly on or all hit the player.
MenuMove == \E step \in {-1, 1} : MenuSelect(step)

DamageFrame ==
    \E see \in SUBSET FirstGuard, f \in {-1, 0, 1} :
        Update(DtLong, <<0, 0>>, FALSE, StartOfMove, see,
               [i \in 1..InFlight(World, DtLong, <<0, 0>>, FALSE, StartOfMove, see) |-> f],
               TRUE)

NextDamage == MenuMove \/ StartRound \/ DamageFrame

SpecDamage == Init /\ [][NextDamage]_vars

\* ------------------------------------------------------------ SpecSight
\* In sight and out of it: a difficulty is chosen in the menu, the player
\* walks between places of a grid over Ground, each guard of the zone sees
\* the player or not as Guard.update finds from the two places and the
\* obstacles, and the guards' bullets leave the world.
SightSpots(z) ==
    {c \in {Pos(x, y) : x \in {100, 300, 500, 700, 900}, y \in {150, 350, 550}} :
        Free(z, c)}

\* The guards of w's zone for which can_see holds, with the player where w
\* has it.
Sight(w) ==
    {w.guards[w.zone][i].id : i \in
        {j \in 1..Len(w.guards[w.zone]) :
            can_see(w.guards[w.zone][j], PlayerRect(w.player),
                    FrameObstacles(w.zone), profile.guard_sight)}}

SightAt(spot) == Sight(UpdateMove(World, DtLong, KeysFor(spot), FALSE, spot))

SightFrame ==
    \E spot \in SightSpots(zone) :
        Update(DtLong, KeysFor(spot), FALSE, spot, SightAt(spot),
               [i \in 1..InFlight(World, DtLong, KeysFor(spot), FALSE, spot, SightAt(spot))
                   |-> -1],
               TRUE)

NextSight == MenuMove \/ StartRound \/ SightFrame

SpecSight == Init /\ [][NextSight]_vars

\* ------------------------------------------------------------ SpecAudio
\* The AudioManager by itself: constructed in one of its modes and then
\* called, method by method, with arguments of every kind.
InitAudio ==
    /\ InitGame
    /\ audio \in { AudioManager("procedural", {}),
                   AudioManager("files", {"gunshot"}),
                   AudioManager("files", {"door", "hurt"}),
                   AudioManager("none", {}) }

\* A call op(args) of the manager that leaves e.
Call(op, args, e) ==
    /\ audio' = e.audio
    /\ ev' = [Ev(op) EXCEPT !.stopped = e.stopped, !.started = e.started,
                            !.raised = e.raised, !.args = args]
    /\ UNCHANGED <<state, selected_difficulty, profile, zone, player, message,
                   message_time, pathway_cooldown, pathway_hint_cooldown,
                   damage_flash_timer, game_over, victory, bullets, guards,
                   npcs, collected, items>>

\* The names the calls are made with: tracks and sounds of the game, and
\* one the manager does not know.
NameArgs == {"Ground", "combat", "gunshot", "hurt", "footsteps"}

PlayMusicForZone ==
    \E z \in {"menu", "Ground", "Harbor", "Cellar"}, combat_active \in BOOLEAN :
        Call("play_music_for_zone", <<z, combat_active>>,
             play_music_for_zone(audio, z, combat_active))

Play == \E name \in NameArgs : Call("play", <<name>>, play(audio, name))

PlaySound ==
    \E name \in NameArgs : Call("play_sound", <<name>>, Eff(play_sound(audio, name)))

StopMusic ==
    \E mixer_error \in BOOLEAN : Call("stop_music", << >>, stop_music(audio, mixer_error))

SetMusicVolume ==
    \E volume \in {-20, 70, 150} :
        Call("set_music_volume", <<volume>>, set_music_volume(audio, volume))

SetSfxVolume ==
    \E volume \in {-20, 70, 150} :
        Call("set_sfx_volume", <<volume>>, set_sfx_volume(audio, volume))

AudioUpdate == \E dt \in DtSet : Call("audio_update", <<dt>>, Eff(audio_update(audio, dt)))

NextAudio ==
    \/ PlayMusicForZone
    \/ Play
    \/ PlaySound
    \/ StopMusic
    \/ SetMusicVolume
    \/ SetSfxVolume
    \/ AudioUpdate

SpecAudio == InitAudio /\ [][NextAudio]_vars

\* ------------------------------------------------------------ SpecMove
\* Character.move_and_collide by itself: the character is the player's
\* rectangle where Game.__init__ puts it, the walls are a corner (a wall to
\* the right, a floor below), a thin wall in front of a thick one, or none,
\* and the velocity is slow, fast or 0 along each axis.  The character stays
\* within MoveReach of its first place.
MoveAndCollide ==
    \E obstacles \in { << Rect(130, 500, 20, 200), Rect(60, 640, 70, 20) >>,
                       << Rect(126, 500, 4, 200), Rect(136, 500, 20, 200) >>,
                       << >> },
       vx \in {-300, -40, 0, 40, 300}, vy \in {-40, 0, 5, 40} :
        \E r \in {move_and_collide(PlayerRect(player), <<vx, vy>>, obstacles)} :
            /\ state = "menu"
            /\ \A k \in 1..Len(obstacles) : ~colliderect(PlayerRect(player), obstacles[k])
            /\ r.x - 100 \in (0 - MoveReach)..MoveReach
            /\ r.y - 600 \in (0 - MoveReach)..MoveReach
            /\ player' = [player EXCEPT !.x = r.x, !.y = r.y]
            /\ ev' = [Ev("move_and_collide") EXCEPT !.args = <<obstacles, <<vx, vy>> >>]
            /\ UNCHANGED <<state, selected_difficulty, profile, zone, message,
                           message_time, pathway_cooldown, pathway_hint_cooldown,
                           damage_flash_timer, game_over, victory, bullets, guards,
                           npcs, collected, items, audio>>

SpecMove == Init /\ [][MoveAndCollide]_vars

\* ------------------------------------------------------------ SpecEscape
\* The walk of Spec with a fight at the end of it: in Harbor there are also
\* frames in which every guard of the zone sees the player and every
\* bullet in flight hits the player.
HarborFight ==
    /\ zone = "Harbor"
    /\ \E spot \in RouteSpots(zone) :
           Update(DtLong, KeysFor(spot), FALSE, spot,
                  {guards[zone][i].id : i \in 1..Len(guards[zone])},
                  [i \in 1..InFlight(World, DtLong, KeysFor(spot), FALSE, spot,
                                     {guards[zone][k].id : k \in 1..Len(guards[zone])})
                      |-> 1],
                  TRUE)

NextEscape == StartRound \/ Walk \/ Interact \/ HarborFight

SpecEscape == Init /\ [][NextEscape]_vars

\* ------------------------------------------------------------ SpecStray
\* Bullets at a gate: the walk of SpecItems in Ground, and, once the tasks
\* of Ground are done, frames in which the player steps into a gate of the
\* zone while the first guard of the zone sees the player and the bullets
\* fly on; as long as bullets are in flight the player stands still and the
\* bullets all leave the world or all hit the player.
GroundWalk == zone = "Ground" /\ ItemsWalk

Ambush ==
    /\ region_complete("Ground", zone, player, npcs, collected)
    /\ \E i \in 1..Len(ZoneData[zone].gates) :
           \E spot \in {Pos(ZoneData[zone].gates[i].rect.x + 8,
                            ZoneData[zone].gates[i].rect.y + 8)} :
               Update(DtLong, <<1, 0>>, FALSE, spot, FirstGuard,
                      [k \in 1..InFlight(World, DtLong, <<1, 0>>, FALSE, spot, FirstGuard)
                          |-> 0],
                      TRUE)

Strays ==
    /\ bullets # << >>
    /\ \E f \in {-1, 1} :
           Update(DtLong, <<0, 0>>, FALSE, StartOfMove, {},
                  [k \in 1..Len(bullets) |-> f], TRUE)

NextStray == StartRound \/ GroundWalk \/ Interact \/ Ambush \/ Strays

SpecStray == Init /\ [][NextStray]_vars

\* ------------------------------------------------------------ SpecSpawn
\* build_guards.is_valid_position: a 22 x 32 guard rectangle at (x, y)
\* overlaps no obstacle of the zone and is not too close to the borders.
is_valid_position(x, y, z) ==
    /\ \A i \in 1..Len(ZoneData[z].obstacles) :
           ~colliderect(Rect(x, y, 22, 32), ZoneData[z].obstacles[i])
    /\ ~(x < 60 \/ x > WIDTH - 100 \/ y < 60 \/ y > HEIGHT - 100)

\* build_guards.find_valid_spawn: the safe fallback positions.
safe_spots ==
    [n \in Zones |->
        CASE n = "Ground" -> Pos(200, 600)
          [] n = "Estate" -> Pos(200, 400)
          [] n = "Tunnels" -> Pos(200, 300)
          [] OTHER -> Pos(200, 500)]

\* build_guards.find_valid_spawn, the loop from attempt on: the probe at
\* intended + (int(radius * cos(angle)), int(radius * sin(angle))) with
\* angle = attempt * 0.5 and radius = 20 + attempt * 10, clamped; after
\* max_attempts = 20 probes the safe spot of the zone.  The result carries
\* the position and the number of probes made.
RECURSIVE spawn_search(_, _, _, _)
spawn_search(intended_x, intended_y, z, attempt) ==
    LET offsets == << <<20, 0>>, <<26, 14>>, <<21, 33>>, <<3, 49>>, <<-24, 54>>,
                      <<-56, 41>>, <<-79, 11>>, <<-84, -31>>, <<-65, -75>>,
                      <<-23, -107>>, <<34, -115>>, <<92, -91>>, <<134, -39>>,
                      <<146, 32>>, <<120, 105>>, <<58, 159>>, <<-26, 178>>,
                      <<-114, 151>>, <<-182, 82>>, <<-209, -15>> >>
    IN  IF attempt >= Len(offsets)
        THEN [pos |-> safe_spots[z], probes |-> attempt]
        ELSE LET test_x == Max(60, Min(WIDTH - 100, intended_x + offsets[attempt + 1][1]))
                 test_y == Max(60, Min(HEIGHT - 100, intended_y + offsets[attempt + 1][2]))
             IN  IF is_valid_position(test_x, test_y, z)
                 THEN [pos |-> Pos(test_x, test_y), probes |-> attempt + 1]
                 ELSE spawn_search(intended_x, intended_y, z, attempt + 1)

\* A faulty find_valid_spawn: the intended position is returned as it is.
find_valid_spawn_as_is(intended_x, intended_y, z) ==
    [pos |-> Pos(intended_x, intended_y), probes |-> 0]

\* build_guards.find_valid_spawn(intended_x, intended_y, zone).
find_valid_spawn(intended_x, intended_y, z) ==
    IF is_valid_position(intended_x, intended_y, z)
    THEN [pos |-> Pos(intended_x, intended_y), probes |-> 0]
    ELSE spawn_search(intended_x, intended_y, z, 0)

\* build_guards: one call of find_valid_spawn in the state after
\* construction, for any zone and any intended position of a grid of
\* SpawnStep pixels over the window.
FindValidSpawn ==
    /\ state = "menu" /\ ev.op = "init"
    /\ \E zone_ \in Zones, i \in 0..(WIDTH \div SpawnStep), j \in 0..(HEIGHT \div SpawnStep) :
           ev' = [Ev("find_valid_spawn") EXCEPT
                     !.args = <<zone_, i * SpawnStep, j * SpawnStep,
                                find_valid_spawn(i * SpawnStep, j * SpawnStep, zone_)>>]
    /\ UNCHANGED <<state, selected_difficulty, profile, zone, player, message,
                   message_time, pathway_cooldown, pathway_hint_cooldown,
                   damage_flash_timer, game_over, victory, bullets, guards, npcs,
                   collected, items, audio>>

SpecSpawn == Init /\ [][FindValidSpawn]_vars

\* ------------------------------------------------------------ SpecFollow
\* A component of to_player.normalize() * speed, in tenths of a pixel and
\* cut to a tenth: c is the component of to_player, d2 the square of its
\* length, speed the speed in tenths.
VelTenths(c, d2, speed) ==
    Sgn(c) * Cardinality({t \in 1..speed : t * t * d2 <= speed * speed * c * c})

\* NPC.update(player, obstacles) on the NPC n, frame by frame: the velocity
\* and Character.move_and_collide.
NPC_update(n, player_rect, obstacles) ==
    IF n.rescued \/ ~n.following THEN n
    ELSE LET dx == centerx(player_rect) - centerx(NPCRect(n))
             dy == centery(player_rect) - centery(NPCRect(n))
             d2 == dx * dx + dy * dy
             vel == IF d2 > 50 * 50
                    THEN <<VelTenths(dx, d2, 22), VelTenths(dy, d2, 22)>>
                    ELSE IF d2 < 30 * 30 /\ d2 > 0
                    THEN <<0 - VelTenths(dx, d2, 10), 0 - VelTenths(dy, d2, 10)>>
                    ELSE <<0, 0>>
             r == move_and_collide(NPCRect(n), vel, obstacles)
         IN  [n EXCEPT !.x = r.x, !.y = r.y]

\* An NPC by itself next to the player, where Game.__init__ puts the player:
\* the NPC is placed with its centre within FollowReach of the player's
\* centre along each axis, following or not, rescued or not, and NPC.update
\* is called on it with no obstacle.
PlaceNPC ==
    /\ state = "menu" /\ npcs = << >>
    /\ \E i, j \in (0 - FollowReach \div FollowStep)..(FollowReach \div FollowStep),
          following \in BOOLEAN, rescued \in BOOLEAN :
           npcs' = << [NPC(centerx(PlayerRect(player)) - 10 + i * FollowStep,
                           centery(PlayerRect(player)) - 15 + j * FollowStep, "Ground")
                          EXCEPT !.following = following, !.rescued = rescued] >>
    /\ ev' = Ev("place")
    /\ UNCHANGED <<state, selected_difficulty, profile, zone, player, message,
                   message_time, pathway_cooldown, pathway_hint_cooldown,
                   damage_flash_timer, game_over, victory, bullets, guards,
                   collected, items, audio>>

NPCStep ==
    /\ state = "menu" /\ npcs # << >>
    /\ npcs' = << NPC_update(npcs[1], PlayerRect(player), << >>) >>
    /\ ev' = Ev("npc_update")
    /\ UNCHANGED <<state, selected_difficulty, profile, zone, player, message,
                   message_time, pathway_cooldown, pathway_hint_cooldown,
                   damage_flash_timer, game_over, victory, bullets, guards,
                   collected, items, audio>>

SpecFollow == Init /\ [][PlaceNPC \/ NPCStep]_vars

\* ------------------------------------------------------------ SpecAmmo
\* The ammo of Ground: the player walks between the pistol and the ammo
\* boxes, interacts and shoots; the bullets of a frame leave the world.
AmmoWalk ==
    \E spot \in ArmsSpots(zone) \cup AmmoSpots(zone) :
        Update(DtLong, KeysFor(spot), FALSE, spot, {},
               [i \in 1..Len(bullets) |-> -1], TRUE)

SpecAmmo == Init /\ [][StartRound \/ AmmoWalk \/ Interact \/ ShootAhead]_vars

\* ------------------------------------------------------------ gates
\* The gate loop of the frame that has just run met gate with the player's
\* rectangle inside it, the pathway cooldown at 0, the gate's key held and
\* the way open: backward, or forward with every task of the zone done.
\* (cur is the zone the frame started in, p the player of that zone; the
\* place, the cooldown and the tasks are those at the start of the gate loop.)
Passable(gate, cur, p, e) ==
    /\ colliderect(Rect(e.gx, e.gy, 22, 32), gate.rect)
    /\ e.cooldown = 0
    /\ (gate.required_key # "none" => p.keys[gate.required_key])
    /\ (RegionIndex(gate.target_zone) > RegionIndex(cur) => e.done)

GatesOf(z) == {ZoneData[z].gates[i] : i \in 1..Len(ZoneData[z].gates)}

\* C1: the zone changes only in a frame of Game.update in which the player's
\* rectangle overlaps a gate of the current zone, the pathway cooldown is 0,
\* the gate's required key is held and the gate leads backward or every task
\* of the zone is complete; without the key, or forward with a task left, the
\* zone never changes.
C1_ZoneChangesOnlyThroughOpenGate ==
    [][zone' # zone =>
          /\ ev'.op = "update"
          /\ \E gate \in GatesOf(zone) :
                 /\ Passable(gate, zone, player, ev')
                 /\ zone' = gate.target_zone]_vars

\* C1 witness: a frame tested a forward gate the player stands in with its
\* key held and a task of the zone left, and the zone did not change.
C1_Witness ==
    /\ ev.op = "update" /\ ev.evaluated >= 1 /\ ev.transitions = 0
    /\ \E gate \in GatesOf(zone) :
           /\ colliderect(PlayerRect(player), gate.rect)
           /\ gate.required_key # "none" /\ player.keys[gate.required_key]
           /\ RegionIndex(gate.target_zone) > RegionIndex(zone)
           /\ ~ev.done
           /\ ev.cooldown = 0

\* C2: a frame of Game.update whose gate loop finds the player in a gate with
\* the pathway cooldown at 0, the key held and the way open makes exactly one
\* transition: the zone becomes the gate's target zone and the player's
\* top-left corner is the gate's spawn point.
C2_ExactlyOneTransition ==
    [][ev'.op = "update" =>
          \A gate \in GatesOf(zone) :
              Passable(gate, zone, player, ev') =>
                  /\ ev'.transitions = 1
                  /\ zone' = gate.target_zone
                  /\ player'.x = gate.spawn.x
                  /\ player'.y = gate.spawn.y]_vars

\* C2 witness: a frame has taken the player through Ground's gate.
C2_Witness ==
    /\ ev.op = "update" /\ ev.transitions = 1
    /\ zone = "Estate" /\ player.x = 1060 /\ player.y = 620
    /\ colliderect(Rect(ev.gx, ev.gy, 22, 32), Rect(52, 84, 54, 92))

\* C3: after a transition the pathway cooldown is 0.7 s less the dt the
\* frames have accumulated since (0 from 0.7 s on), and a frame that leaves
\* the accumulated dt under 0.7 s tests no gate and makes no transition.
C3_CooldownAfterTransition ==
    [][/\ pathway_cooldown' = 70 - ev'.since
       /\ (ev'.op = "update" /\ ev.since + ev'.dt < 70) =>
              (ev'.evaluated = 0 /\ ev'.transitions = 0 /\ zone' = zone)]_vars

\* C3 witness: a frame less than 0.7 s after a transition has left the
\* player standing in a gate of the zone, its key held, and tested no gate.
C3_Witness ==
    /\ ev.op = "update" /\ ev.since > 0 /\ ev.since < 70
    /\ pathway_cooldown > 0 /\ ev.evaluated = 0
    /\ \E gate \in GatesOf(zone) :
           /\ colliderect(PlayerRect(player), gate.rect)
           /\ (gate.required_key # "none" => player.keys[gate.required_key])
           /\ RegionIndex(gate.target_zone) < RegionIndex(zone)

\* ------------------------------------------------------------ extraction
\* All three keys are held.
AllKeys(p) == p.keys["jail_key"] /\ p.keys["cave_key"] /\ p.keys["boat_key"]

\* C4: a frame of Game.update sets victory if and only if, at its extraction
\* check, the player's rectangle overlaps the extraction rectangle, clues is
\* 3, the three keys are held and rescued_npcs is 2; no other step sets it.
C4_VictoryIff ==
    [][/\ ev'.op = "update" =>
              (victory' <=> /\ ev'.at_extraction
                            /\ player'.clues = 3
                            /\ AllKeys(player')
                            /\ player'.rescued_npcs = 2)
       /\ ev'.op # "update" => (victory' = victory)]_vars

\* C4 witness: a frame has set victory with the player on the boat.
C4_Witness ==
    /\ ev.op = "update" /\ victory /\ ev.at_extraction
    /\ "victory" \in ev.check_changed

\* C5: an extraction check with the player on the extraction rectangle and a
\* victory condition false leaves victory false and changes nothing of the
\* world but the message; the frame leaves the collected set alone.
C5_RejectionChangesOnlyMessage ==
    [][(/\ ev'.op = "update"
        /\ ev'.at_extraction
        /\ ~(player'.clues = 3 /\ AllKeys(player') /\ player'.rescued_npcs = 2)) =>
           /\ ~victory'
           /\ ev'.check_changed \subseteq {"message"}
           /\ collected' = collected]_vars

\* C5 witness: the extraction check has turned the player away, two
\* survivors short, and has changed the message.
C5_Witness ==
    /\ ev.op = "update" /\ ev.at_extraction /\ ~victory
    /\ player.rescued_npcs < 2
    /\ ev.check_changed = {"message"}
    /\ message = "not_ready"

\* ------------------------------------------------------------ shooting
\* C6: Player.try_shoot returns no bullet and leaves ammo, fire cooldown,
\* facing and muzzle timer alone when has_gun is false, ammo is 0 or the
\* fire cooldown is above 0; otherwise it takes exactly 1 from ammo, sets the
\* fire cooldown to 0.18 s and returns one bullet owned by "player" that
\* starts at the player's centre.
C6_TryShootContract ==
    [][ev'.op = "shoot" =>
          IF ~player.has_gun \/ player.ammo = 0 \/ player.fire_cooldown > 0
          THEN /\ ev'.shot = << >>
               /\ player'.ammo = player.ammo
               /\ player'.fire_cooldown = player.fire_cooldown
               /\ player'.look_dir = player.look_dir
               /\ player'.muzzle_timer = player.muzzle_timer
          ELSE /\ player'.ammo = player.ammo - 1
               /\ player'.fire_cooldown = 18
               /\ Len(ev'.shot) = 1
               /\ ev'.shot[1].owner = "player"
               /\ ev'.shot[1].ox = centerx(PlayerRect(player))
               /\ ev'.shot[1].oy = centery(PlayerRect(player))]_vars

\* C6 witness: the pistol held, the fire cooldown over and the last round
\* fired, try_shoot has returned no bullet.
C6_Witness ==
    /\ ev.op = "shoot" /\ ev.shot = << >>
    /\ player.has_gun /\ player.ammo = 0 /\ player.fire_cooldown = 0

\* ------------------------------------------------------------ stamina
\* C7: after every Player.handle_input call, whatever the non-negative dt,
\* drain and recover and the keys held, the stamina is within
\* [0, MAX_STAMINA].
C7_StaminaInBounds ==
    player.stamina >= 0 /\ player.stamina <= MAX_STAMINA * 100

\* C7 witness: a sprint of a long frame has taken the stamina to 0.
C7_Witness ==
    ev.op = "input" /\ ev.dt = DtHuge /\ player.stamina = 0

\* ------------------------------------------------------------ guards
\* C8: a guard whose health is 0 or below is not updated by any later frame:
\* Guard.update is not called on it.
C8_DeadGuardNeverUpdates ==
    [][ev'.op = "update" =>
          \A i \in 1..Len(guards[zone]) :
              guards[zone][i].health <= 0 => guards[zone][i].id \notin ev'.updated]_vars

\* The hits of the last frame on the guard id.
HitsOn(e, id) == Cardinality({i \in 1..Len(e.hits) : e.hits[i] = id})

\* C9: within a round a guard's health never increases: over a step it
\* changes by profile.player_damage for each hit of a player's bullet on that
\* guard in the step, and by nothing else.
C9_GuardHealthOnlyDecreasesByHits ==
    [][state = "playing" =>
          \A z \in Zones : \A i \in 1..Len(guards'[z]) :
              \E j \in 1..Len(guards[z]) :
                  /\ guards[z][j].id = guards'[z][i].id
                  /\ guards'[z][i].health <= guards[z][j].health
                  /\ guards'[z][i].health =
                         guards[z][j].health
                         - profile.player_damage * HitsOn(ev', guards'[z][i].id)]_vars

\* C9 witness: a player's bullet has hit a guard of the zone, whose health
\* is now one hit under full.
C9_Witness ==
    /\ ev.op = "update" /\ ev.hits # << >>
    /\ \E i \in 1..Len(guards[zone]) :
           /\ guards[zone][i].id = ev.hits[1]
           /\ guards[zone][i].health = profile.guard_health - profile.player_damage

\* ------------------------------------------------------------ pickups
\* The identifiers a step adds to Game.collected.
Fresh == collected' \ collected

\* C10: within a round the collected set only grows and a key flag once set
\* stays set; a Game.interact call adds 20 ammo and the pistol only with the
\* pistol's identifier entering the collected set, 12 ammo per ammo box whose
\* identifier enters it, 1 clue per clue whose identifier enters it; a call
\* that collects nothing and sets no key flag leaves the player unchanged.
C10_PickupOneShot ==
    [][state = "playing" =>
          /\ collected \subseteq collected'
          /\ \A k \in DOMAIN player.keys : player.keys[k] => player'.keys[k]
          /\ ev'.op = "interact" =>
                 /\ player'.ammo = player.ammo
                        + (IF GunId \in Fresh THEN 20 ELSE 0)
                        + 12 * Cardinality({id \in Fresh : id[1] = "ammo"})
                 /\ player'.clues = player.clues
                        + Cardinality({id \in Fresh : id[1] = "clue"})
                 /\ player'.has_gun = (player.has_gun \/ GunId \in Fresh)
                 /\ (Fresh = {} /\ player'.keys = player.keys) => player' = player]_vars

\* C10 witness: Game.interact was called on the pistol's place with the
\* pistol and an ammo box collected before, and picked nothing up.
C10_Witness ==
    /\ ev.op = "interact" /\ ~ev.any
    /\ GunId \in collected /\ AmmoId(zone, 0) \in collected
    /\ \E g \in items[zone].gun : colliderect(PlayerRect(player), g)
    /\ player.ammo = 32

\* ------------------------------------------------------------ survivors
\* The NPCs of the round, by index.
NPCIds == 1..Len(npcs)

\* The zone NPC i is made in by reset_round.
SpawnZone(i) == IF i = 1 THEN "Estate" ELSE "Tunnels"

\* The counter and the flags of the rescued agree.
RescuedCount == player.rescued_npcs = Cardinality({i \in NPCIds : npcs[i].rescued})

\* C11: rescued_npcs is the number of NPCs whose rescued flag is set (at most
\* 2); within a round a rescued flag stays set, and a frame leaves a rescued
\* NPC where it is.
C11_RescuedCountedOnce ==
    [][/\ RescuedCount'
       /\ player'.rescued_npcs <= 2
       /\ state = "playing" =>
              \A i \in NPCIds :
                  npcs[i].rescued =>
                      /\ npcs'[i].rescued
                      /\ npcs'[i].x = npcs[i].x /\ npcs'[i].y = npcs[i].y]_vars

\* C11 witness: both survivors are rescued and a later frame has run with
\* the player, whom they followed, farther than 50 to their left.
C11_Witness ==
    /\ ev.op = "update" /\ zone = "Harbor"
    /\ player.rescued_npcs = 2
    /\ \A i \in NPCIds : npcs[i].rescued
    /\ \A i \in NPCIds :
           centerx(PlayerRect(player)) < centerx(NPCRect(npcs[i])) - 50

\* C12: a frame sets an NPC's rescued flag only for a follower in Harbor
\* whose rectangle overlaps Harbor's extraction rectangle.
C12_RescuedOnlyAtExtraction ==
    [][\A i \in NPCIds :
           (state = "playing" /\ ~npcs[i].rescued /\ npcs'[i].rescued) =>
               /\ npcs'[i].following
               /\ npcs'[i].zone = "Harbor"
               /\ \E e \in ZoneData["Harbor"].extraction :
                      colliderect(NPCRect(npcs'[i]), e)]_vars

\* C13: between frames a follower not yet rescued is in the player's zone,
\* and an NPC's zone changes only in a frame that crosses a gate, for a
\* follower of the zone left, to the zone entered.
C13_FollowersShareZone ==
    [][/\ \A i \in 1..Len(npcs') :
              (npcs'[i].following /\ ~npcs'[i].rescued) => npcs'[i].zone = zone'
       /\ state = "playing" =>
              \A i \in NPCIds :
                  npcs'[i].zone # npcs[i].zone =>
                      /\ ev'.op = "update" /\ ev'.transitions = 1
                      /\ npcs[i].following /\ ~npcs[i].rescued
                      /\ npcs[i].zone = zone
                      /\ npcs'[i].zone = zone']_vars

\* C13 witness: a gate crossing has taken the Estate survivor, following,
\* out of its zone.
C13_Witness ==
    /\ ev.op = "update" /\ ev.transitions = 1
    /\ npcs[1].following /\ ~npcs[1].rescued
    /\ npcs[1].zone = zone /\ zone # SpawnZone(1)

\* ------------------------------------------------------------ C14
\* C14: a frame lowers the player's health by profile.guard_damage for each
\* guard's bullet that hits the player and nothing else lowers it during a
\* round; after every step of a round game_over holds exactly when the
\* health is at most 0.
C14_DamageAndDefeat ==
    [][/\ ev'.op = "update" =>
              player'.health = player.health - profile.guard_damage * ev'.struck
       /\ (state = "playing" /\ ev'.op # "update") => player'.health = player.health
       /\ state' = "playing" => (game_over' <=> player'.health <= 0)]_vars

\* Story: the tenth hit of 12 takes the last of the 120 health.
C14_Witness ==
    /\ ev.op = "update"
    /\ profile.name = "Story"
    /\ ev.struck = 1
    /\ player.health = 0
    /\ game_over

\* ------------------------------------------------------------ C15
\* The guards of the zone the frame starts in, by id.
GuardIds == {guards[zone][i].id : i \in 1..Len(guards[zone])}

GuardOf(gs, id) == gs[CHOOSE i \in 1..Len(gs) : gs[i].id = id]

GuardBullets(bs) == {i \in 1..Len(bs) : bs[i].owner = "guard"}

\* C15: in a frame a guard returns a bullet exactly when it sees the player
\* in that update and its shoot timer less dt is at most 0; the guard's
\* timer is then guard_shoot_cooldown; the dt of its updates since its
\* previous bullet is at least guard_shoot_cooldown; and the guards' bullets
\* in flight grow by no more than the bullets returned.
C15_GuardShoots ==
    [][ev'.op = "update" =>
          /\ ev'.updated = GuardIds
          /\ \A id \in GuardIds :
                 /\ id \in ev'.fired <=>
                        (id \in ev'.see /\ GuardOf(guards[zone], id).shoot_timer - ev'.dt <= 0)
                 /\ id \notin ev'.see => id \notin ev'.fired
                 /\ id \in ev'.fired =>
                        /\ ev.shot_age[id] + ev'.dt >= profile.guard_shoot_cooldown
                        /\ \A i \in 1..Len(guards'[zone]) :
                               guards'[zone][i].id = id =>
                                   guards'[zone][i].shoot_timer = profile.guard_shoot_cooldown
          /\ Cardinality(GuardBullets(bullets')) <=
                 Cardinality(GuardBullets(bullets)) + Cardinality(ev'.fired)]_vars

\* Story: the first guard has just fired and its previous bullet still flies.
C15_Witness ==
    /\ ev.op = "update"
    /\ profile.name = "Story"
    /\ ev.fired # {}
    /\ Cardinality(GuardBullets(bullets)) = 2

\* ------------------------------------------------------------ C16
\* The player's centre when the guard pass of the frame started.
SeenCentre == <<centerx(Rect(ev.px, ev.py, 22, 32)), centery(Rect(ev.px, ev.py, 22, 32))>>

\* Guard g is within guard_sight of the centre c.
InRange(g, c) ==
    (c[1] - (g.x + 11)) * (c[1] - (g.x + 11)) + (c[2] - (g.y + 16)) * (c[2] - (g.y + 16))
        <= profile.guard_sight * profile.guard_sight

\* None of the 25 probes between guard g and the centre c overlaps an
\* obstacle of zone z.
Unblocked(g, c, z) ==
    \A i \in 1..25 : \A k \in 1..Len(FrameObstacles(z)) :
        ~colliderect(Probe(g.x + 11, g.y + 16, c[1], c[2], i), FrameObstacles(z)[k])

C17_TimersNeverNegative ==
    /\ player.fire_cooldown >= 0
    /\ player.muzzle_timer >= 0
    /\ \A z \in Zones : \A i \in 1..Len(guards[z]) :
           /\ guards[z][i].shoot_timer >= 0
           /\ guards[z][i].muzzle_timer >= 0
    /\ pathway_cooldown >= 0
    /\ pathway_hint_cooldown >= 0
    /\ damage_flash_timer >= 0
    /\ message_time >= 0
    /\ audio.volume_duck_timer >= 0

\* ------------------------------------------------------------ C18
\* Lines 279-284: the track play_music_for_zone(z, combat_active) resolves to.
Resolved(a, z, combat_active) ==
    IF combat_active THEN "combat"
    ELSE IF z \in MusicTracks(a) THEN z ELSE "menu"

\* C18: a call of play_music_for_zone on an enabled manager, procedural or
\* from files, whose track is the current one stops nothing and starts
\* nothing; a call that stops or starts has a track other than the current
\* one; and the same call made again right after it is redundant: it stops
\* nothing and starts nothing.
C18_RedundantRestartsSuppressed ==
    [][(ev'.op = "play_music_for_zone" /\ audio.enabled) =>
          /\ audio.current_music = Resolved(audio, ev'.args[1], ev'.args[2]) =>
                 (~ev'.stopped /\ ev'.started = "None" /\ audio' = audio)
          /\ (ev'.stopped \/ ev'.started # "None") =>
                 audio.current_music # Resolved(audio, ev'.args[1], ev'.args[2])
          /\ ~play_music_for_zone(audio', ev'.args[1], ev'.args[2]).stopped
          /\ play_music_for_zone(audio', ev'.args[1], ev'.args[2]).started = "None"]_vars

\* ------------------------------------------------------------ C19
\* C19: with the procedural manager, after a frame the current track is
\* "combat" when a guard of the zone the frame started in saw the player in
\* its update of that frame, and else the track of that zone, also when the
\* frame has taken the player to another zone.
C19_CombatOverridesZoneMusic ==
    [][(ev'.op = "update" /\ audio.enabled /\ ~audio.using_file_sounds) =>
          /\ ev'.any_alert <=> ev'.see # {}
          /\ audio'.current_music = IF ev'.see # {} THEN "combat" ELSE zone]_vars

\* A frame in which a guard saw the player has left the combat track on.
C19_Witness ==
    /\ ev.op = "update"
    /\ ev.see # {}
    /\ \E i \in 1..Len(guards[zone]) : guards[zone][i].alerted
    /\ audio.current_music = "combat"

\* ------------------------------------------------------------ C20
\* C20: every call of a disabled manager (play, play_music_for_zone,
\* play_sound, stop_music, set_music_volume, set_sfx_volume, update) leaves
\* the manager as it was, starts nothing and raises nothing.
C20_DisabledCallsAreNoOps ==
    [][(~audio.enabled /\ ev'.op \in {"play", "play_music_for_zone", "play_sound",
                                      "stop_music", "set_music_volume",
                                      "set_sfx_volume", "audio_update"}) =>
          /\ audio' = audio
          /\ ev'.started = "None"
          /\ ev'.raised = "None"]_vars

\* ------------------------------------------------------------ C21
\* C21: a character that overlaps no wall before move_and_collide overlaps
\* no wall after it, whatever the walls and the velocity.
C21_NoPenetration ==
    ev.op = "move_and_collide" =>
        \A k \in 1..Len(ev.args[1]) : ~colliderect(PlayerRect(player), ev.args[1][k])

\* ------------------------------------------------------------ C22
\* C22: a frame leaves the guards of every zone but the one it started in
\* as they were, none changed and none removed; an interaction and a shot
\* change no guard at all.
C22_OtherZonesGuardsUntouched ==
    [][state = "playing" =>
          /\ \A z \in Zones \ {zone} : guards'[z] = guards[z]
          /\ ev'.op # "update" => guards' = guards]_vars

\* A frame has changed the guards of the player's zone, by their timers and
\* by a hit, and the other zones have guards of their own.
C22_Witness ==
    /\ ev.op = "update"
    /\ ev.hits # << >>
    /\ ev.updated # {}
    /\ \A z \in Zones \ {zone} : guards[z] # << >>
    /\ \E i \in 1..Len(guards[zone]) : guards[zone][i].shoot_timer < 50

\* ------------------------------------------------------------ C23
\* The followers a transition out of the frame's zone takes along: the NPCs
\* of that zone that follow and are not rescued when the gate loop runs.
Transferred ==
    {i \in 1..Len(npcs) : npcs[i].following /\ ~npcs'[i].rescued /\ npcs[i].zone = zone}

\* C23: a frame with a gate transition leaves every transferred follower in
\* the new zone, the i-th of them (from 0) with its centre at the centre the
\* player has in the new zone, offset by (-40 - 20 * i, +20).
C23_FollowersPlacedNearPlayer ==
    [][(ev'.op = "update" /\ ev'.transitions = 1) =>
          \A i \in Transferred :
              /\ npcs'[i].zone = zone'
              /\ centerx(NPCRect(npcs'[i])) =
                     centerx(PlayerRect(player')) - 40
                         - 20 * Cardinality({j \in Transferred : j < i})
              /\ centery(NPCRect(npcs'[i])) = centery(PlayerRect(player')) + 20]_vars

\* ------------------------------------------------------------ C24
\* C24: a frame takes the player from Tunnels to Harbor only if the NPC that
\* reset_round put in Tunnels follows or is rescued.
C24_TunnelSurvivorGatesHarbor ==
    [][(state = "playing" /\ zone = "Tunnels" /\ zone' = "Harbor") =>
          \A i \in NPCIds : SpawnZone(i) = "Tunnels" =>
              (npcs[i].following \/ npcs[i].rescued)]_vars

\* ------------------------------------------------------------ C25
\* Both survivors are rescued, so each stays in Harbor for good, and the
\* player is in an earlier zone without having won: the third task of Estate
\* and of Tunnels asks for an NPC whose zone is that zone, which no NPC will
\* ever be again.
DeadEnd ==
    /\ state = "playing"
    /\ ~victory
    /\ zone # "Harbor"
    /\ \A i \in NPCIds : npcs[i].rescued

\* No step out of DeadEnd: the round stays without victory and out of Harbor,
\* where alone victory is set.
C25_DeadEndIsClosed == [][DeadEnd => DeadEnd']_vars

\* C25: the round has no dead end: no state of a living player is one that
\* no movement, interaction or gate crossing can leave for victory.
C25_NoDeadEnd == ~(DeadEnd /\ ~game_over)

\* ------------------------------------------------------------ C26
\* C26: victory and game_over are never both true.
C26_VictoryExcludesGameOver == ~(victory /\ game_over)

\* ------------------------------------------------------------ C27
\* C27: once game_over or victory is true, no step changes the round: the
\* flags stay, and ammo, has_gun, the keys, the clues, the collected set, the
\* NPCs' following flags and the bullet list stay as they were.
C27_EndIsAbsorbing ==
    [][(state = "playing" /\ (game_over \/ victory)) =>
          /\ game_over' = game_over /\ victory' = victory
          /\ player'.ammo = player.ammo
          /\ player'.has_gun = player.has_gun
          /\ player'.keys = player.keys
          /\ player'.clues = player.clues
          /\ collected' = collected
          /\ \A i \in NPCIds : npcs'[i].following = npcs[i].following
          /\ bullets' = bullets]_vars

\* ------------------------------------------------------------ C28
\* C28: a frame with a gate transition leaves no bullet in flight, and in
\* the frame after it, if no guard fires, no bullet hits the player or a
\* guard: the bullets of the zone left do not live on in the new zone.
C28_BulletsStayInTheirZone ==
    [][ev'.op = "update" =>
          /\ ev'.transitions = 1 => bullets' = << >>
          /\ (ev.op = "update" /\ ev.transitions = 1 /\ ev'.fired = {}) =>
                 (ev'.struck = 0 /\ ev'.hits = << >>)]_vars


\* C29: the player's rectangle at the spawn point of any gate overlaps no
\* gate and no obstacle of the gate's target zone, and a frame of Game.update
\* that finds the player standing on the spawn point of a gate into the
\* current zone, and leaves the player there, makes no transition.
C29_SpawnsClearOfGates ==
    /\ \A z \in Zones : \A gate \in GatesOf(z) :
           /\ \A other \in GatesOf(gate.target_zone) :
                  ~colliderect(Rect(gate.spawn.x, gate.spawn.y, 22, 32), other.rect)
           /\ \A i \in 1..Len(ZoneData[gate.target_zone].obstacles) :
                  ~colliderect(Rect(gate.spawn.x, gate.spawn.y, 22, 32),
                               ZoneData[gate.target_zone].obstacles[i])
    /\ [][(/\ ev'.op = "update"
           /\ \E z \in Zones : \E gate \in GatesOf(z) :
                  /\ gate.target_zone = zone
                  /\ player.x = gate.spawn.x /\ player.y = gate.spawn.y
           /\ ev'.gx = player.x /\ ev'.gy = player.y)
              => (ev'.transitions = 0 /\ zone' = zone)]_vars


\* C30: being in a zone implies the keys, the gun and the clues of the zones
\* before it: in Estate, Tunnels or Harbor the jail key is held, the gun is
\* held and Ground's clue is collected; in Tunnels or Harbor the cave key is
\* held and Estate's clue is collected; in Harbor all three keys are held and
\* clues is 3; and a frame of Game.update whose extraction check finds the
\* player on the boat makes the round won exactly when two or more survivors
\* have been rescued.
C30_ProgressInvariant ==
    /\ [](/\ zone \in {"Estate", "Tunnels", "Harbor"} =>
                (/\ player.keys["jail_key"] /\ player.has_gun
                 /\ ClueId("Ground") \in collected)
          /\ zone \in {"Tunnels", "Harbor"} =>
                (player.keys["cave_key"] /\ ClueId("Estate") \in collected)
          /\ zone = "Harbor" => (AllKeys(player) /\ player.clues = 3))
    /\ [][(ev'.op = "update" /\ ev'.at_extraction) =>
              (victory' <=> player'.rescued_npcs >= 2)]_vars

\* C30 witness: in Harbor a frame has found the player on the boat with fewer
\* than two survivors rescued and the round is not won.
C30_Witness ==
    /\ zone = "Harbor" /\ ev.op = "update" /\ ev.at_extraction
    /\ player.rescued_npcs < 2 /\ ~victory


\* ------------------------------------------------------------ order of the zones
\* C31: every gate leads to a zone next to its own in region_order; a round
\* starts in Ground; and the zone changes only in a frame of Game.update
\* that makes one transition, to a zone next to the one left.
C31_TransitionsAreAdjacent ==
    /\ \A z \in Zones : \A gate \in GatesOf(z) :
           RegionIndex(gate.target_zone) - RegionIndex(z) \in {-1, 1}
    /\ [][/\ ev'.op = "reset" => zone' = "Ground"
          /\ zone' # zone =>
                (/\ ev'.op = "update" /\ ev'.transitions = 1
                 /\ RegionIndex(zone') - RegionIndex(zone) \in {-1, 1})]_vars

\* C31 witness: a frame has taken the player back from Tunnels to Estate.
C31_Witness ==
    /\ ev.op = "update" /\ ev.transitions = 1
    /\ zone = "Estate" /\ player.x = 120 /\ player.y = 620
    /\ colliderect(Rect(ev.gx, ev.gy, 22, 32), Rect(1082, 620, 56, 56))


\* ------------------------------------------------------------ messages
\* C32: a frame of Game.update that sets a gate hint (locked, or tasks left)
\* or the not-ready message of the extraction check leaves the message timer
\* above 0.
C32_RejectionsAreShown ==
    [][(/\ ev'.op = "update"
        /\ \/ pathway_hint_cooldown' = 100 /\ message' \in {"locked", "tasks"}
           \/ ev'.at_extraction /\ ~victory' /\ message' = "not_ready")
           => message_time' > 0]_vars


\* C33: the hint cooldown is 1.0 s less the dt accumulated since the last
\* gate hint (0 from 1.0 s on): a frame of Game.update sets a gate hint, and
\* the cooldown to 1.0 s, only when the dt of the frame uses up what is left
\* of the cooldown; a frame that sets none counts the cooldown down by dt and
\* sets no hint message; no other step touches the cooldown.
C33_HintsAtMostOncePerSecond ==
    [][/\ ev'.op = "update" =>
              IF pathway_hint_cooldown' = 100
              THEN pathway_hint_cooldown <= ev'.dt
              ELSE /\ pathway_hint_cooldown' = Max(0, pathway_hint_cooldown - ev'.dt)
                   /\ message' \in {"locked", "tasks"} => message' = message
       /\ ev'.op # "update" => pathway_hint_cooldown' = pathway_hint_cooldown]_vars

\* C33 witness: a frame has found the player on a locked gate less than 1.0 s
\* after a hint, tested the gate and set no hint.
C33_Witness ==
    /\ ev.op = "update" /\ ev.cooldown = 0 /\ ev.evaluated >= 1
    /\ pathway_hint_cooldown > 0 /\ pathway_hint_cooldown < 100
    /\ message = "locked"
    /\ \E gate \in GatesOf(zone) :
           /\ colliderect(Rect(ev.gx, ev.gy, 22, 32), gate.rect)
           /\ GateLocked(gate, player)


\* ------------------------------------------------------------ bullets
\* C34: after a frame of Game.update every bullet of the list is alive; the
\* player is hit at most once per guard's bullet of the frame and guards are
\* hit at most once per bullet of the player; every bullet that hit is gone
\* from the list; and the player's health falls by no more than guard_damage
\* per hit.
C34_BulletsHitOnceAndGo ==
    [][ev'.op = "update" =>
          /\ \A i \in 1..Len(bullets') : bullets'[i].alive
          /\ ev'.struck <= Cardinality(GuardBullets(bullets)) + Cardinality(ev'.fired)
          /\ Len(ev'.hits) <= Len(bullets) - Cardinality(GuardBullets(bullets))
          /\ Len(bullets') + ev'.struck + Len(ev'.hits)
                 <= Len(bullets) + Cardinality(ev'.fired)
          /\ player'.health >= player.health - profile.guard_damage * ev'.struck]_vars

\* C34 witness: in one frame a guard's bullet has hit the player and the
\* player's bullet a guard, and no bullet is left.
C34_Witness ==
    /\ ev.op = "update" /\ ev.struck = 1 /\ Len(ev.hits) = 1
    /\ bullets = << >>


\* ------------------------------------------------------------ passes
\* C35: in a frame of Game.update the calls of Guard.update are, in order and
\* once each, the guards the current zone holds when the frame starts, and
\* Bullet.update is called once for every bullet in the list when the bullet
\* pass starts: those of the frame's start and those the guards fired.
C35_PassesSkipNothing ==
    [][ev'.op = "update" =>
          /\ Len(ev'.guard_calls) = Len(guards[zone])
          /\ \A i \in 1..Len(guards[zone]) : ev'.guard_calls[i] = guards[zone][i].id
          /\ ev'.bullet_calls = Len(bullets) + Cardinality(ev'.fired)]_vars

\* C35 witness: a frame has removed a guard during the guard pass and a
\* bullet during the bullet pass.
C35_Witness ==
    /\ ev.op = "update" /\ ev.transitions = 0
    /\ Len(guards[zone]) < Len(ev.guard_calls)
    /\ Len(bullets) < ev.bullet_calls


\* ------------------------------------------------------------ pier
\* C36: no obstacle that Game.update works with in Harbor overlaps the pier
\* rectangle (800, 200, 300, 40) of validate_player_position, and a player
\* standing on the pier overlaps no obstacle of the frame.
C36_PierIsFreeOfObstacles ==
    /\ \A i \in 1..Len(FrameObstacles("Harbor")) :
           ~colliderect(FrameObstacles("Harbor")[i], Rect(800, 200, 300, 40))
    /\ (zone = "Harbor" /\ colliderect(PlayerRect(player), Rect(800, 200, 300, 40))) =>
           \A i \in 1..Len(FrameObstacles(zone)) :
               ~colliderect(PlayerRect(player), FrameObstacles(zone)[i])

\* C36 witness: a frame has left the player on the pier in Harbor.
C36_Witness ==
    /\ ev.op = "update" /\ zone = "Harbor"
    /\ colliderect(PlayerRect(player), Rect(800, 200, 300, 40))


\* ------------------------------------------------------------ guard spawns
\* C37: every safe spot is a position is_valid_position accepts;
\* find_valid_spawn makes at most 20 probes and returns a position that
\* is_valid_position accepts or, after 20 rejected probes, the safe spot of
\* the zone; a guard rectangle at the position returned overlaps no obstacle
\* of the zone.
C37_SpawnSearchYieldsUsablePoint ==
    /\ \A n \in Zones : is_valid_position(safe_spots[n].x, safe_spots[n].y, n)
    /\ ev.op = "find_valid_spawn" =>
           LET zone_ == ev.args[1]
               found == ev.args[4]
           IN  /\ found.probes <= 20
               /\ \/ is_valid_position(found.pos.x, found.pos.y, zone_)
                  \/ found.probes = 20 /\ found.pos = safe_spots[zone_]
               /\ \A i \in 1..Len(ZoneData[zone_].obstacles) :
                      ~colliderect(Rect(found.pos.x, found.pos.y, 22, 32),
                                   ZoneData[zone_].obstacles[i])

\* C37 witness: the intended position (540, 500) of Ground's first guard is
\* inside an obstacle and the fifth probe finds (516, 554).
C37_Witness ==
    /\ ev.op = "find_valid_spawn"
    /\ ev.args = <<"Ground", 540, 500, [pos |-> Pos(516, 554), probes |-> 5]>>


\* ------------------------------------------------------------ followers
\* C38: NPC.update with no obstacle brings a following NPC that is not
\* rescued closer to the player when the distance of the centres is over 50,
\* takes it farther when the distance is under 30 and over 0, and leaves it
\* in place when the distance is from 30 to 50; an NPC that does not follow
\* or is rescued stays in place.
C38_FollowerKeepsItsDistance ==
    [][ev'.op = "npc_update" =>
          LET cx == centerx(PlayerRect(player))
              cy == centery(PlayerRect(player))
              d2 == (cx - centerx(NPCRect(npcs[1]))) * (cx - centerx(NPCRect(npcs[1])))
                    + (cy - centery(NPCRect(npcs[1]))) * (cy - centery(NPCRect(npcs[1])))
              e2 == (cx - centerx(NPCRect(npcs'[1]))) * (cx - centerx(NPCRect(npcs'[1])))
                    + (cy - centery(NPCRect(npcs'[1]))) * (cy - centery(NPCRect(npcs'[1])))
          IN  IF npcs[1].following /\ ~npcs[1].rescued
              THEN /\ d2 > 2500 => e2 < d2
                   /\ (d2 < 900 /\ d2 > 0) => e2 > d2
                   /\ (d2 >= 900 /\ d2 <= 2500) => npcs'[1] = npcs[1]
              ELSE npcs'[1] = npcs[1]]_vars


\* ------------------------------------------------------------ ammo
\* The ammo the pickups collected so far have given: 20 with the pistol, 12
\* per ammo box.
AmmoGranted ==
    (IF GunId \in collected THEN 20 ELSE 0)
        + 12 * Cardinality({id \in collected : id[1] = "ammo"})

\* C39: the ammo is at least 0 and at most what the pickups have given, and
\* the difference is the number of bullets fired: a round starts with no
\* ammo, nothing collected and no bullet; a try_shoot call takes from the
\* ammo what it returns, one bullet or none, and returns a bullet only with
\* has_gun true; an interaction adds to the ammo what it adds to the ammo
\* given; a frame leaves the ammo alone and adds no bullet of the player; and
\* while a bullet of the player is in flight has_gun is true.
C39_AmmoAccounting ==
    /\ [](/\ player.ammo >= 0 /\ player.ammo <= AmmoGranted
          /\ (\E i \in 1..Len(bullets) : bullets[i].owner = "player") => player.has_gun)
    /\ [][/\ ev'.op = "reset" =>
                (player'.ammo = 0 /\ collected' = {} /\ bullets' = << >>)
          /\ ev'.op = "shoot" =>
                (/\ player'.ammo = player.ammo - Len(ev'.shot)
                 /\ Len(ev'.shot) <= 1
                 /\ ev'.shot # << >> => player.has_gun
                 /\ bullets' = bullets \o ev'.shot
                 /\ collected' = collected)
          /\ ev'.op = "interact" =>
                (/\ player'.ammo - player.ammo = AmmoGranted' - AmmoGranted
                 /\ bullets' = bullets)
          /\ ev'.op = "update" =>
                (/\ player'.ammo = player.ammo
                 /\ collected' = collected
                 /\ Len(bullets') - Cardinality(GuardBullets(bullets'))
                        <= Len(bullets) - Cardinality(GuardBullets(bullets)))]_vars

\* C39 witness: with the pistol and one ammo box collected the player has
\* fired the second bullet.
C39_Witness ==
    /\ ev.op = "shoot" /\ ev.shot # << >>
    /\ GunId \in collected
    /\ Cardinality({id \in collected : id[1] = "ammo"}) = 1
    /\ player.ammo = 30

=============================================================================
